---- MODULE Spec2Model ----
(***************************************************************************)
(* Thermal controller firmware: the real-time database (rtdb.c), the       *)
(* on/off controller task (controller.c), the priority control law of the  *)
(* host build (controller_dummy.c) and the UART framer and command         *)
(* dispatcher (uartcomm.c).                                                *)
(*                                                                         *)
(* Bytes are their ASCII codes; a frame is a sequence of bytes.            *)
(***************************************************************************)
EXTENDS Integers, Sequences, FiniteSets, TLC

(***************************************************************************)
(* Bounds of the explored inputs.                                          *)
(***************************************************************************)
TempSpread == 1      \* store arguments lie within TempSpread of the default limits
LawMaxTemp == 3      \* control-law inputs range over 0..LawMaxTemp
CtrlSpread == 1      \* sensor values within CtrlSpread of the setpoints used
MaxOffTicks == 2     \* the count of ticks run with the system off saturates here
MaxVaried == 6       \* a received frame has command/data bytes at indices < MaxVaried

(***************************************************************************)
(* Program constants.                                                      *)
(***************************************************************************)
UART_BUF_SIZE == 64
RATE_MIN == 10
RATE_MAX == 60000

VARIABLES
    rtdb,       \* g_rtdb: the shared record
    call,       \* the last store / control-law call: operation, argument, return value
    ctrl,       \* control_task: position and locals (system_on, sp, cur, heater)
    gate,       \* level driven on the MOSFET gate pin P1.12 (active low)
    offTicks,   \* history: ticks completed since system_on was last seen to go false
    tickFresh,  \* history: the running tick read system_on = false and it stayed false
    idx,        \* uart_task: write index into buf
    buf,        \* uart_task: the bytes buf[0..idx-1] (bytes at idx.. are dead)
    byte,       \* uart_task: the byte last returned by uart_poll_in
    tx,         \* frames written to the UART while handling the last byte
    disp,       \* buffers handed to handle_command while handling the last byte
    rtdb_dummy, \* g_rtdb_dummy: the store of the host build
    uart_test_buffer,  \* frames the host build's handle_command sent in its last call
    rtdb_mutex, \* the k_mutex of rtdb.c: owning thread and lock count
    task        \* per task: position inside a store operation, the operation, its locals

vars == <<rtdb, call, ctrl, gate, offTicks, tickFresh, idx, buf, byte, tx, disp,
          rtdb_dummy, uart_test_buffer, rtdb_mutex, task>>
ctrlVars == <<ctrl, gate, tickFresh>>
uartVars == <<idx, buf, byte, tx, disp>>
dummyVars == <<rtdb_dummy, uart_test_buffer>>
lockVars == <<rtdb_mutex, task>>

(***************************************************************************)
(* State Store (rtdb.c).  Each function body runs between k_mutex_lock and *)
(* k_mutex_unlock, so it is one step.                                      *)
(***************************************************************************)
g_rtdb_setpoint_below_min ==
    [system_on |-> TRUE, setpoint |-> 16, current_temp |-> 0,
     max_temp |-> 80, min_temp |-> 20, sampling_rate_ms |-> 1000]

g_rtdb ==
    [system_on |-> TRUE, setpoint |-> 26, current_temp |-> 0,
     max_temp |-> 80, min_temp |-> 20, sampling_rate_ms |-> 1000]

rtdb_set_system_on_toggle(db, on) == [db EXCEPT !.system_on = ~db.system_on]

rtdb_set_system_on(db, on) == [db EXCEPT !.system_on = on]

rtdb_set_setpoint(db, val) ==
    IF val > db.max_temp THEN [db EXCEPT !.setpoint = db.max_temp]
    ELSE IF val < db.min_temp THEN [db EXCEPT !.setpoint = db.min_temp]
    ELSE [db EXCEPT !.setpoint = val]

rtdb_set_current_temp(db, val) == [db EXCEPT !.current_temp = val]

rtdb_set_max_temp_noclamp(db, val) == [db EXCEPT !.max_temp = val]

rtdb_set_max_temp(db, val) ==
    LET d1 == [db EXCEPT !.max_temp = val]
    IN  IF d1.setpoint > d1.max_temp THEN [d1 EXCEPT !.setpoint = d1.max_temp] ELSE d1

rtdb_set_min_temp(db, val) ==
    LET d1 == [db EXCEPT !.min_temp = val]
    IN  IF d1.setpoint < d1.min_temp THEN [d1 EXCEPT !.setpoint = d1.min_temp] ELSE d1

rtdb_set_sampling_rate_noupper(db, ms) ==
    IF ms < RATE_MIN THEN [db EXCEPT !.sampling_rate_ms = RATE_MIN]
    ELSE [db EXCEPT !.sampling_rate_ms = ms]

rtdb_set_sampling_rate(db, ms) ==
    IF ms < RATE_MIN THEN [db EXCEPT !.sampling_rate_ms = RATE_MIN]
    ELSE IF ms > RATE_MAX THEN [db EXCEPT !.sampling_rate_ms = RATE_MAX]
    ELSE [db EXCEPT !.sampling_rate_ms = ms]

rtdb_get_system_on(db) == db.system_on
rtdb_get_setpoint(db) == db.setpoint
rtdb_get_current_temp(db) == db.current_temp
rtdb_get_max_temp(db) == db.max_temp
rtdb_get_min_temp(db) == db.min_temp
rtdb_get_sampling_rate(db) == db.sampling_rate_ms

\* rtdb_dummy_init: the defaults of the host build's store
g_rtdb_dummy ==
    [system_on |-> TRUE, setpoint |-> 26, current_temp |-> 0,
     max_temp |-> 80, min_temp |-> 20, heater |-> FALSE, sampling_rate_ms |-> 1000]

(* Argument sets of the store calls. *)
TempArgs ==
    ((g_rtdb.min_temp - TempSpread)..(g_rtdb.min_temp + TempSpread))
        \cup ((g_rtdb.max_temp - TempSpread)..(g_rtdb.max_temp + TempSpread))
CurArgs == {-1, 1000}
\* uint32 arguments; 2147483647 stands for every larger value (only compared)
RateArgs == {0, 9, 10, 5000, 60000, 60001, 2147483647}

Setter(op, arg, db) ==
    /\ rtdb' = db
    /\ call' = [op |-> op, arg |-> arg, ret |-> 0]

Getter(op, ret) ==
    /\ call' = [op |-> op, arg |-> 0, ret |-> ret]
    /\ UNCHANGED rtdb

SetSystemOn(on) ==
    /\ Setter("set_system_on", on, rtdb_set_system_on(rtdb, on))
    /\ offTicks' = IF on THEN 0 ELSE offTicks
    /\ tickFresh' = IF on THEN FALSE ELSE tickFresh
    /\ UNCHANGED <<ctrl, gate, uartVars, dummyVars, lockVars>>

SetSetpoint(val) ==
    /\ Setter("set_setpoint", val, rtdb_set_setpoint(rtdb, val))
    /\ UNCHANGED <<ctrlVars, offTicks, uartVars, dummyVars, lockVars>>

SetCurrentTemp(val) ==
    /\ Setter("set_current_temp", val, rtdb_set_current_temp(rtdb, val))
    /\ UNCHANGED <<ctrlVars, offTicks, uartVars, dummyVars, lockVars>>

SetMaxTemp(val) ==
    /\ Setter("set_max_temp", val, rtdb_set_max_temp(rtdb, val))
    /\ UNCHANGED <<ctrlVars, offTicks, uartVars, dummyVars, lockVars>>

SetMinTemp(val) ==
    /\ Setter("set_min_temp", val, rtdb_set_min_temp(rtdb, val))
    /\ UNCHANGED <<ctrlVars, offTicks, uartVars, dummyVars, lockVars>>

SetSamplingRate(ms) ==
    /\ Setter("set_sampling_rate", ms, rtdb_set_sampling_rate(rtdb, ms))
    /\ UNCHANGED <<ctrlVars, offTicks, uartVars, dummyVars, lockVars>>

GetSystemOn ==
    /\ Getter("get_system_on", rtdb_get_system_on(rtdb))
    /\ UNCHANGED <<ctrlVars, offTicks, uartVars, dummyVars, lockVars>>

GetSetpoint ==
    /\ Getter("get_setpoint", rtdb_get_setpoint(rtdb))
    /\ UNCHANGED <<ctrlVars, offTicks, uartVars, dummyVars, lockVars>>

GetCurrentTemp ==
    /\ Getter("get_current_temp", rtdb_get_current_temp(rtdb))
    /\ UNCHANGED <<ctrlVars, offTicks, uartVars, dummyVars, lockVars>>

GetMaxTemp ==
    /\ Getter("get_max_temp", rtdb_get_max_temp(rtdb))
    /\ UNCHANGED <<ctrlVars, offTicks, uartVars, dummyVars, lockVars>>

GetMinTemp ==
    /\ Getter("get_min_temp", rtdb_get_min_temp(rtdb))
    /\ UNCHANGED <<ctrlVars, offTicks, uartVars, dummyVars, lockVars>>

GetSamplingRate ==
    /\ Getter("get_sampling_rate", rtdb_get_sampling_rate(rtdb))
    /\ UNCHANGED <<ctrlVars, offTicks, uartVars, dummyVars, lockVars>>

(***************************************************************************)
(* Initial state: the store defaults, the controller before its first      *)
(* tick (controller_init drove the gate to 1), the framer idle.            *)
(***************************************************************************)
(***************************************************************************)
(* Tasks that call the store (rtdb.c): threads created with                *)
(* k_thread_create, and the button callback inc_pressed, which the GPIO    *)
(* pin interrupt runs on top of whichever thread it interrupts.            *)
(***************************************************************************)
Threads == {"uart_task", "control_task"}

Handler == "inc_pressed"

\* the two setpoint buttons, callbacks of the same pin interrupt
Handlers == {Handler, "dec_pressed"}

Tasks == Threads \cup Handlers

k_mutex_init == [owner |-> "none", lock_count |-> 0]

\* pc: idle | lock | body | clamp | unlock | fatal;  ctx: the thread in whose
\* context the code runs;  k: which store call of inc_pressed is running;
\* n: button presses handled so far
TaskIdle == [pc |-> "idle", op |-> "none", arg |-> 0, v |-> 0, ctx |-> "none", k |-> 0, n |-> 0]

Init ==
    /\ rtdb = g_rtdb
    /\ call = [op |-> "none", arg |-> 0, ret |-> 0]
    /\ ctrl = [pc |-> "read_on", system_on |-> FALSE, sp |-> 0, cur |-> 0, heater |-> FALSE,
               started |-> FALSE]
    /\ gate = 1
    /\ offTicks = 0
    /\ tickFresh = FALSE
    /\ idx = 0
    /\ buf = <<>>
    /\ byte = 0
    /\ tx = <<>>
    /\ disp = <<>>
    /\ rtdb_dummy = g_rtdb_dummy
    /\ uart_test_buffer = <<>>
    /\ rtdb_mutex = k_mutex_init
    /\ task = [x \in Tasks |-> TaskIdle]

(***************************************************************************)
(* The store driven by arbitrary calls.                                    *)
(***************************************************************************)
NextStore ==
    \/ \E on \in BOOLEAN : SetSystemOn(on)
    \/ \E v \in TempArgs \cup {g_rtdb.setpoint} : SetSetpoint(v)
    \/ \E v \in CurArgs : SetCurrentTemp(v)
    \/ \E v \in TempArgs : SetMaxTemp(v)
    \/ \E v \in TempArgs : SetMinTemp(v)
    \/ \E ms \in RateArgs : SetSamplingRate(ms)
    \/ GetSystemOn
    \/ GetSetpoint
    \/ GetCurrentTemp
    \/ GetMaxTemp
    \/ GetMinTemp
    \/ GetSamplingRate

SpecStore == Init /\ [][NextStore]_vars

(***************************************************************************)
(* Priority control law of the host build (controller_dummy.c), a pure     *)
(* function: Init draws its six inputs, Compute applies it.                *)
(***************************************************************************)
controller_dummy_compute_minfirst(system_on, setpoint, current_temp, min_temp, max_temp, heater_was_on) ==
    IF ~system_on THEN FALSE
    ELSE IF current_temp < min_temp THEN TRUE
    ELSE IF current_temp > max_temp THEN FALSE
    ELSE IF current_temp < setpoint THEN TRUE
    ELSE FALSE

controller_dummy_compute_upto_setpoint(system_on, setpoint, current_temp, min_temp, max_temp, heater_was_on) ==
    IF ~system_on THEN FALSE
    ELSE IF current_temp > max_temp THEN FALSE
    ELSE IF current_temp < min_temp THEN TRUE
    ELSE IF current_temp <= setpoint THEN TRUE
    ELSE FALSE

controller_dummy_compute(system_on, setpoint, current_temp, min_temp, max_temp, heater_was_on) ==
    IF ~system_on THEN FALSE
    ELSE IF current_temp > max_temp THEN FALSE
    ELSE IF current_temp < min_temp THEN TRUE
    ELSE IF current_temp < setpoint THEN TRUE
    ELSE FALSE

LawTemps == 0..LawMaxTemp

InitLaw ==
    /\ call \in [op : {"compute"}, done : {FALSE}, ret : {FALSE},
                 system_on : BOOLEAN, setpoint : LawTemps, current_temp : LawTemps,
                 min_temp : LawTemps, max_temp : LawTemps, heater_was_on : BOOLEAN]
    /\ rtdb = g_rtdb
    /\ ctrl = [pc |-> "read_on", system_on |-> FALSE, sp |-> 0, cur |-> 0, heater |-> FALSE,
               started |-> FALSE]
    /\ gate = 1
    /\ offTicks = 0
    /\ tickFresh = FALSE
    /\ idx = 0
    /\ buf = <<>>
    /\ byte = 0
    /\ tx = <<>>
    /\ disp = <<>>
    /\ rtdb_dummy = g_rtdb_dummy
    /\ uart_test_buffer = <<>>
    /\ rtdb_mutex = k_mutex_init
    /\ task = [x \in Tasks |-> TaskIdle]

Compute ==
    /\ call.op = "compute"
    /\ ~call.done
    /\ call' = [call EXCEPT !.done = TRUE,
                            !.ret = controller_dummy_compute(call.system_on, call.setpoint,
                                        call.current_temp, call.min_temp, call.max_temp,
                                        call.heater_was_on)]
    /\ UNCHANGED <<rtdb, ctrlVars, offTicks, uartVars, dummyVars, lockVars>>

NextLaw == Compute

SpecLaw == InitLaw /\ [][NextLaw]_vars

(***************************************************************************)
(* Controller task of the firmware (controller.c).  One tick reads         *)
(* system_on, setpoint and current_temp through three separate store       *)
(* calls, updates the local heater flag, drives the gate and sleeps; the   *)
(* other tasks may change the store between any two of these steps.        *)
(* ctrl.started records that the first tick has driven the gate.           *)
(***************************************************************************)
control_law_keep_when_off(system_on, sp, cur, heater) ==
    IF cur <= sp - 1 THEN FALSE
    ELSE IF cur >= sp + 1 THEN TRUE
    ELSE heater

control_law_off_in_zone(system_on, sp, cur, heater) ==
    IF ~system_on THEN FALSE
    ELSE IF cur <= sp - 1 THEN FALSE
    ELSE IF cur >= sp + 1 THEN TRUE
    ELSE FALSE

\* lines 54-65: the new value of the local heater flag
control_law(system_on, sp, cur, heater) ==
    IF ~system_on THEN FALSE
    ELSE IF cur <= sp - 1 THEN FALSE
    ELSE IF cur >= sp + 1 THEN TRUE
    ELSE heater

\* line 68: gpio_pin_set(heater_dev, HEATER_PIN, heater ? 0 : 1)
gate_level(heater) == IF heater THEN 0 ELSE 1

CtrlReadSystemOn ==
    /\ ctrl.pc = "read_on"
    /\ ctrl' = [ctrl EXCEPT !.system_on = rtdb_get_system_on(rtdb), !.pc = "read_sp"]
    /\ tickFresh' = ~rtdb.system_on
    /\ UNCHANGED <<rtdb, call, gate, offTicks, uartVars, dummyVars, lockVars>>

CtrlReadSetpoint ==
    /\ ctrl.pc = "read_sp"
    /\ ctrl' = [ctrl EXCEPT !.sp = rtdb_get_setpoint(rtdb), !.pc = "read_cur"]
    /\ UNCHANGED <<rtdb, call, gate, offTicks, tickFresh, uartVars, dummyVars, lockVars>>

CtrlReadCurrentTemp ==
    /\ ctrl.pc = "read_cur"
    /\ ctrl' = [ctrl EXCEPT !.cur = rtdb_get_current_temp(rtdb), !.pc = "drive"]
    /\ UNCHANGED <<rtdb, call, gate, offTicks, tickFresh, uartVars, dummyVars, lockVars>>

CtrlDrive ==
    /\ ctrl.pc = "drive"
    /\ LET h == control_law(ctrl.system_on, ctrl.sp, ctrl.cur, ctrl.heater)
       IN  /\ ctrl' = [ctrl EXCEPT !.heater = h, !.pc = "sleep", !.started = TRUE]
           /\ gate' = gate_level(h)
    /\ offTicks' = IF tickFresh /\ offTicks < MaxOffTicks THEN offTicks + 1 ELSE offTicks
    /\ UNCHANGED <<rtdb, call, tickFresh, uartVars, dummyVars, lockVars>>

CtrlWake ==
    /\ ctrl.pc = "sleep"
    /\ ctrl' = [ctrl EXCEPT !.pc = "read_on"]
    /\ UNCHANGED <<rtdb, call, gate, offTicks, tickFresh, uartVars, dummyVars, lockVars>>

(* Values the other tasks write while the controller runs. *)
CtrlSetpoints == {g_rtdb.setpoint, g_rtdb.setpoint + 1}
CtrlCurTemps == (g_rtdb.setpoint - CtrlSpread)..(g_rtdb.setpoint + 1 + CtrlSpread)

NextCtrl ==
    \/ CtrlReadSystemOn
    \/ CtrlReadSetpoint
    \/ CtrlReadCurrentTemp
    \/ CtrlDrive
    \/ CtrlWake
    \/ \E on \in BOOLEAN : SetSystemOn(on)
    \/ \E v \in CtrlSetpoints : SetSetpoint(v)
    \/ \E v \in CtrlCurTemps : SetCurrentTemp(v)

SpecCtrl == Init /\ [][NextCtrl]_vars

(***************************************************************************)
(* UART protocol (uartcomm.c): bytes, checksum, frame encoding.            *)
(***************************************************************************)
CH_HASH == 35     \* '#'
CH_BANG == 33     \* '!'
CH_CR == 13       \* '\r'
CH_LF == 10       \* '\n'
CH_0 == 48        \* '0'
CH_1 == 49        \* '1'
CH_M == 77        \* 'M'
CH_m == 109       \* 'm'
CH_C == 67        \* 'C'
CH_R == 82        \* 'R'
CH_r == 114       \* 'r'
CH_E == 69        \* 'E'
CH_S == 83        \* 'S'
CH_c == 99        \* 'c'
CH_s == 115       \* 's'
CH_o == 111       \* 'o'
CH_f == 102       \* 'f'
CH_i == 105       \* 'i'

ToUint8(n) == n % 256
ToUint16(n) == n % 65536
ToInt16(n) == ((n + 32768) % 65536) - 32768

\* atoi of the C library on a NUL-terminated string of at most four
\* characters: leading white space, an optional sign, then digits up to the
\* first character that is not a digit.
IsDigit(c) == c >= 48 /\ c <= 57
IsSpace(c) == c = 32 \/ (c >= 9 /\ c <= 13)

RECURSIVE AtoiDigits(_, _, _)
AtoiDigits(str, i, acc) ==
    IF i > Len(str) \/ ~IsDigit(str[i]) THEN acc
    ELSE AtoiDigits(str, i + 1, acc * 10 + (str[i] - 48))

RECURSIVE AtoiSkip(_, _)
AtoiSkip(str, i) ==
    IF i <= Len(str) /\ IsSpace(str[i]) THEN AtoiSkip(str, i + 1) ELSE i

atoi(str) ==
    LET i == AtoiSkip(str, 1)
    IN  IF i <= Len(str) /\ str[i] = 45 THEN 0 - AtoiDigits(str, i + 1, 0)
        ELSE IF i <= Len(str) /\ str[i] = 43 THEN AtoiDigits(str, i + 1, 0)
        ELSE AtoiDigits(str, i, 0)

\* "sum += buf[i]" on the uint16_t accumulator
checksum_add_saturating(sum, b) == IF sum + b > 65535 THEN 65535 ELSE sum + b

checksum_add(sum, b) == ToUint16(sum + b)

RECURSIVE ChecksumSum(_, _, _)
ChecksumSum(bytes, i, sum) ==
    IF i > Len(bytes) THEN sum
    ELSE ChecksumSum(bytes, i + 1, checksum_add(sum, bytes[i]))

calculate_checksum(bytes) == ChecksumSum(bytes, 1, 0) % 256

send_frame_checksum_data_only(cmd, data) ==
    LET cs == calculate_checksum(data)
    IN  <<CH_HASH, cmd>> \o data
            \o <<CH_0 + ((cs \div 100) % 10), CH_0 + ((cs \div 10) % 10), CH_0 + (cs % 10)>>
            \o <<CH_BANG>>

send_frame(cmd, data) ==
    LET cs == calculate_checksum(<<cmd>> \o data)
    IN  <<CH_HASH, cmd>> \o data
            \o <<CH_0 + ((cs \div 100) % 10), CH_0 + ((cs \div 10) % 10), CH_0 + (cs % 10)>>
            \o <<CH_BANG>>

send_ack(code) == send_frame(CH_E, <<code>>)

(***************************************************************************)
(* handle_command(dev, buf, len): the result is the store after the        *)
(* command and the frames sent, in order.  C index k of buf is k + 1 here. *)
(***************************************************************************)
Reply(db, frames) == [db |-> db, tx |-> frames]

cmd_set_max_temp_nocheck(db, data) ==
    IF Len(data) # 3 THEN Reply(db, <<send_ack(CH_i)>>)
    ELSE Reply(rtdb_set_max_temp(db, ToInt16(atoi(data))), <<send_ack(CH_o)>>)

cmd_set_max_temp(db, data) ==
    IF Len(data) # 3 THEN Reply(db, <<send_ack(CH_i)>>)
    ELSE LET val == atoi(data)
         IN  IF val < rtdb_get_min_temp(db) THEN Reply(db, <<send_ack(CH_i)>>)
             ELSE Reply(rtdb_set_max_temp(db, ToInt16(val)), <<send_ack(CH_o)>>)

cmd_set_min_temp_nocheck(db, data) ==
    IF Len(data) # 3 THEN Reply(db, <<send_ack(CH_i)>>)
    ELSE Reply(rtdb_set_min_temp(db, ToInt16(atoi(data))), <<send_ack(CH_o)>>)

cmd_set_min_temp_write_first(db, data) ==
    IF Len(data) # 3 THEN Reply(db, <<send_ack(CH_i)>>)
    ELSE LET val == atoi(data)
         IN  IF val > rtdb_get_max_temp(db)
             THEN Reply(rtdb_set_min_temp(db, ToInt16(val)), <<send_ack(CH_i)>>)
             ELSE Reply(rtdb_set_min_temp(db, ToInt16(val)), <<send_ack(CH_o)>>)

cmd_set_min_temp(db, data) ==
    IF Len(data) # 3 THEN Reply(db, <<send_ack(CH_i)>>)
    ELSE LET val == atoi(data)
         IN  IF val > rtdb_get_max_temp(db) THEN Reply(db, <<send_ack(CH_i)>>)
             ELSE Reply(rtdb_set_min_temp(db, ToInt16(val)), <<send_ack(CH_o)>>)

cmd_get_current_temp_noclamp(db, data) ==
    LET cur == rtdb_get_current_temp(db)
        out == <<CH_0 + (cur \div 100), CH_0 + ((cur \div 10) % 10), CH_0 + (cur % 10)>>
    IN  Reply(db, <<send_frame(CH_c, out)>>)

cmd_get_current_temp(db, data) ==
    LET c0 == rtdb_get_current_temp(db)
        cur == IF c0 < 0 THEN 0 ELSE IF c0 > 999 THEN 999 ELSE c0
        out == <<CH_0 + (cur \div 100), CH_0 + ((cur \div 10) % 10), CH_0 + (cur % 10)>>
    IN  Reply(db, <<send_frame(CH_c, out)>>)

cmd_set_sampling_rate(db, data) ==
    IF Len(data) # 4 THEN Reply(db, <<send_ack(CH_i)>>)
    ELSE LET val == atoi(data)
         IN  IF val < 10 \/ val > 9999 THEN Reply(db, <<send_ack(CH_i)>>)
             ELSE Reply(rtdb_set_sampling_rate(db, val), <<send_ack(CH_o)>>)

cmd_get_sampling_rate_noclamp(db, data) ==
    IF Len(data) # 0 THEN Reply(db, <<send_ack(CH_i)>>)
    ELSE LET sr == rtdb_get_sampling_rate(db)
             out == <<CH_0 + ((sr \div 1000) % 10), CH_0 + ((sr \div 100) % 10),
                      CH_0 + ((sr \div 10) % 10), CH_0 + (sr % 10)>>
         IN  Reply(db, <<send_frame(CH_s, out)>>)

cmd_get_sampling_rate(db, data) ==
    IF Len(data) # 0 THEN Reply(db, <<send_ack(CH_i)>>)
    ELSE LET s0 == rtdb_get_sampling_rate(db)
             sr == IF s0 > 9999 THEN 9999 ELSE s0
             out == <<CH_0 + ((sr \div 1000) % 10), CH_0 + ((sr \div 100) % 10),
                      CH_0 + ((sr \div 10) % 10), CH_0 + (sr % 10)>>
         IN  Reply(db, <<send_frame(CH_s, out)>>)

cmd_system_on_swapped(db, data) ==
    IF Len(data) # 1 THEN Reply(db, <<send_ack(CH_i)>>)
    ELSE IF data[1] = CH_0 THEN Reply(rtdb_set_system_on(db, FALSE), <<send_ack(CH_o)>>)
    ELSE IF data[1] = CH_1 THEN Reply(rtdb_set_system_on(db, TRUE), <<send_ack(CH_o)>>)
    ELSE Reply(db, <<send_ack(CH_i)>>)

cmd_system_on(db, data) ==
    IF Len(data) # 1 THEN Reply(db, <<send_ack(CH_i)>>)
    ELSE IF data[1] = CH_0 THEN Reply(rtdb_set_system_on(db, TRUE), <<send_ack(CH_o)>>)
    ELSE IF data[1] = CH_1 THEN Reply(rtdb_set_system_on(db, FALSE), <<send_ack(CH_o)>>)
    ELSE Reply(db, <<send_ack(CH_i)>>)

cmd_controller_params(db, data) ==
    IF Len(data) < 1 THEN Reply(db, <<send_ack(CH_i)>>)
    ELSE Reply(db, <<send_ack(CH_o)>>)

handle_command_no_delimiter_check(db, b, len) ==
    IF len < 6 THEN Reply(db, <<send_ack(CH_f)>>)
    ELSE
        LET cmd == b[2]
            cs_rcv == ToUint8(atoi(<<b[len - 3], b[len - 2], b[len - 1]>>))
            data_len == len - 6
            data == SubSeq(b, 3, 2 + data_len)
            cmd_valido == cmd \in {CH_M, CH_m, CH_C, CH_R, CH_r, CH_E, CH_S}
        IN  IF ~cmd_valido THEN
                (IF ToUint8(cmd) # cs_rcv
                 THEN Reply(db, <<send_ack(CH_s), send_ack(CH_i)>>)
                 ELSE Reply(db, <<send_ack(CH_i)>>))
            ELSE IF calculate_checksum(SubSeq(b, 2, 2 + data_len)) # cs_rcv
                 THEN Reply(db, <<send_ack(CH_s)>>)
            ELSE IF cmd = CH_M THEN cmd_set_max_temp(db, data)
            ELSE IF cmd = CH_m THEN cmd_set_min_temp(db, data)
            ELSE IF cmd = CH_C THEN cmd_get_current_temp(db, data)
            ELSE IF cmd = CH_R THEN cmd_set_sampling_rate(db, data)
            ELSE IF cmd = CH_r THEN cmd_get_sampling_rate(db, data)
            ELSE IF cmd = CH_E THEN cmd_system_on(db, data)
            ELSE IF cmd = CH_S THEN cmd_controller_params(db, data)
            ELSE Reply(db, <<send_ack(CH_i)>>)

handle_command(db, b, len) ==
    IF len < 6 THEN Reply(db, <<send_ack(CH_f)>>)
    ELSE IF b[1] # CH_HASH \/ b[len] # CH_BANG THEN Reply(db, <<send_ack(CH_f)>>)
    ELSE
        LET cmd == b[2]
            cs_rcv == ToUint8(atoi(<<b[len - 3], b[len - 2], b[len - 1]>>))
            data_len == len - 6
            data == SubSeq(b, 3, 2 + data_len)
            cmd_valido == cmd \in {CH_M, CH_m, CH_C, CH_R, CH_r, CH_E, CH_S}
        IN  IF ~cmd_valido THEN
                (IF ToUint8(cmd) # cs_rcv
                 THEN Reply(db, <<send_ack(CH_s), send_ack(CH_i)>>)
                 ELSE Reply(db, <<send_ack(CH_i)>>))
            ELSE IF calculate_checksum(SubSeq(b, 2, 2 + data_len)) # cs_rcv
                 THEN Reply(db, <<send_ack(CH_s)>>)
            ELSE IF cmd = CH_M THEN cmd_set_max_temp(db, data)
            ELSE IF cmd = CH_m THEN cmd_set_min_temp(db, data)
            ELSE IF cmd = CH_C THEN cmd_get_current_temp(db, data)
            ELSE IF cmd = CH_R THEN cmd_set_sampling_rate(db, data)
            ELSE IF cmd = CH_r THEN cmd_get_sampling_rate(db, data)
            ELSE IF cmd = CH_E THEN cmd_system_on(db, data)
            ELSE IF cmd = CH_S THEN cmd_controller_params(db, data)
            ELSE Reply(db, <<send_ack(CH_i)>>)

(***************************************************************************)
(* uart_task: what one received byte does to the framer, by the branch of  *)
(* the loop body that takes it.  A result holds the new idx and buf, the   *)
(* frames sent, the buffers handed to handle_command and the new store.    *)
(* When the code sets idx = 0 the bytes left in buf are dead (overwritten  *)
(* before they are read), so the model drops them.                         *)
(***************************************************************************)
Rx(i, bf, frames, handed, db) ==
    [idx |-> i, buf |-> bf, tx |-> frames, disp |-> handed, db |-> db]

\* lines 395-399: '!' with idx = 0
rx_bang_idle_silent(i, bf, db) == Rx(i, bf, <<>>, <<>>, db)

rx_bang_idle(i, bf, db) == Rx(i, bf, <<send_ack(CH_f)>>, <<>>, db)

\* lines 401-407: '#' with idx > 0
rx_hash_in_frame_drop(i, bf, db) == Rx(0, <<>>, <<send_ack(CH_f)>>, <<>>, db)

rx_hash_in_frame(i, bf, db) == Rx(1, <<CH_HASH>>, <<send_ack(CH_f)>>, <<>>, db)

\* lines 416-421: '#' with idx = 0
rx_hash_idle_noincrement(i, bf, b, db) == Rx(0, <<>>, <<>>, <<>>, db)

rx_hash_idle(i, bf, b, db) == Rx(1, <<b>>, <<>>, <<>>, db)

\* lines 427-432: the byte just stored is '!'
rx_frame_end_noreset(i, bf, db) ==
    LET r == handle_command(db, bf, i)
    IN  Rx(i, bf, r.tx, <<bf>>, r.db)

rx_frame_end(i, bf, db) ==
    LET r == handle_command(db, bf, i)
    IN  Rx(0, <<>>, r.tx, <<bf>>, r.db)

\* lines 434-439: the buffer is full and the byte just stored is not '!'
rx_overflow_silent(i, bf, db) == Rx(0, <<>>, <<>>, <<>>, db)

rx_overflow_noreset(i, bf, db) == Rx(i, bf, <<send_ack(CH_f)>>, <<>>, db)

rx_overflow(i, bf, db) == Rx(0, <<>>, <<send_ack(CH_f)>>, <<>>, db)

rx_in_frame_late_overflow(i, bf, b, db) ==
    LET bf2 == Append(bf, b)
        i2 == i + 1
    IN  IF b = CH_BANG THEN rx_frame_end(i2, bf2, db)
        ELSE IF i2 > UART_BUF_SIZE THEN rx_overflow(i2, bf2, db)
        ELSE Rx(i2, bf2, <<>>, <<>>, db)

\* lines 423-443: a byte with idx > 0
rx_in_frame(i, bf, b, db) ==
    LET bf2 == Append(bf, b)
        i2 == i + 1
    IN  IF b = CH_BANG THEN rx_frame_end(i2, bf2, db)
        ELSE IF i2 >= UART_BUF_SIZE THEN rx_overflow(i2, bf2, db)
        ELSE Rx(i2, bf2, <<>>, <<>>, db)

uart_rx_idle_accumulates(i, bf, b, db) ==
    IF b = CH_CR \/ b = CH_LF THEN Rx(i, bf, <<>>, <<>>, db)
    ELSE IF b = CH_BANG /\ i = 0 THEN rx_bang_idle(i, bf, db)
    ELSE IF b = CH_HASH /\ i > 0 THEN rx_hash_in_frame(i, bf, db)
    ELSE IF b = CH_HASH THEN rx_hash_idle(i, bf, b, db)
    ELSE rx_in_frame(i, bf, b, db)

uart_rx_crlf_in_frame_error(i, bf, b, db) ==
    IF (b = CH_CR \/ b = CH_LF) /\ i = 0 THEN Rx(i, bf, <<>>, <<>>, db)
    ELSE IF b = CH_BANG /\ i = 0 THEN rx_bang_idle(i, bf, db)
    ELSE IF b = CH_HASH /\ i > 0 THEN rx_hash_in_frame(i, bf, db)
    ELSE IF (b = CH_LF \/ b = CH_CR) /\ i > 0 THEN Rx(0, <<>>, <<send_ack(CH_f)>>, <<>>, db)
    ELSE IF b = CH_HASH THEN rx_hash_idle(i, bf, b, db)
    ELSE IF i > 0 THEN rx_in_frame(i, bf, b, db)
    ELSE Rx(i, bf, <<>>, <<>>, db)

\* lines 389-446: the loop body for a received byte
uart_rx(i, bf, b, db) ==
    IF b = CH_CR \/ b = CH_LF THEN Rx(i, bf, <<>>, <<>>, db)
    ELSE IF b = CH_BANG /\ i = 0 THEN rx_bang_idle(i, bf, db)
    ELSE IF b = CH_HASH /\ i > 0 THEN rx_hash_in_frame(i, bf, db)
    ELSE IF (b = CH_LF \/ b = CH_CR) /\ i > 0 THEN Rx(0, <<>>, <<send_ack(CH_f)>>, <<>>, db)
    ELSE IF b = CH_HASH THEN rx_hash_idle(i, bf, b, db)
    ELSE IF i > 0 THEN rx_in_frame(i, bf, b, db)
    ELSE Rx(i, bf, <<>>, <<>>, db)

\* uart_poll_in returned a byte.  (When it returns none the task only
\* sleeps: a stuttering step.)
UartRx(b) ==
    /\ LET r == uart_rx(idx, buf, b, rtdb)
       IN  /\ idx' = r.idx
           /\ buf' = r.buf
           /\ tx' = r.tx
           /\ disp' = r.disp
           /\ rtdb' = r.db
    /\ byte' = b
    /\ UNCHANGED <<call, ctrlVars, offTicks, dummyVars, lockVars>>

(* The byte streams explored: a frame either carries command and data      *)
(* bytes at indices below MaxVaried, or consists of filler bytes only and  *)
(* may then grow to the capacity of the buffer.                            *)
CH_FILL == 120    \* 'x'
DataBytes == {CH_E, CH_0, CH_1, 55, 56}
Delimiters == {CH_HASH, CH_BANG, CH_CR, CH_LF}

OnlyFill(bf) == \A k \in 2..Len(bf) : bf[k] = CH_FILL
NoFill(bf) == \A k \in 2..Len(bf) : bf[k] # CH_FILL

RxBytes ==
    Delimiters
        \cup (IF idx = 0 \/ (idx < MaxVaried /\ NoFill(buf)) THEN DataBytes ELSE {})
        \cup (IF idx = 0 \/ OnlyFill(buf) THEN {CH_FILL} ELSE {})

NextUart == \E b \in RxBytes : UartRx(b)

SpecUart == Init /\ [][NextUart]_vars

(***************************************************************************)
(* Host build (src/dummy): the store rtdb_dummy.c and the dispatcher of    *)
(* uartcomm_dummy.c, which the unit tests drive.                           *)
(***************************************************************************)
rtdb_dummy_set_system_on(db, on) == [db EXCEPT !.system_on = on]

rtdb_dummy_set_setpoint(db, val) ==
    IF val > db.max_temp THEN [db EXCEPT !.setpoint = db.max_temp]
    ELSE IF val < db.min_temp THEN [db EXCEPT !.setpoint = db.min_temp]
    ELSE [db EXCEPT !.setpoint = val]

rtdb_dummy_set_current_temp(db, val) == [db EXCEPT !.current_temp = val]

rtdb_dummy_set_max_temp(db, val) ==
    LET d1 == [db EXCEPT !.max_temp = val]
    IN  IF d1.setpoint > d1.max_temp THEN [d1 EXCEPT !.setpoint = d1.max_temp] ELSE d1

rtdb_dummy_set_min_temp(db, val) ==
    LET d1 == [db EXCEPT !.min_temp = val]
    IN  IF d1.setpoint < d1.min_temp THEN [d1 EXCEPT !.setpoint = d1.min_temp] ELSE d1

rtdb_dummy_set_sampling_rate(db, ms) ==
    IF ms < 10 THEN [db EXCEPT !.sampling_rate_ms = 10]
    ELSE IF ms > 60000 THEN [db EXCEPT !.sampling_rate_ms = 60000]
    ELSE [db EXCEPT !.sampling_rate_ms = ms]

rtdb_dummy_get_current_temp(db) == db.current_temp
rtdb_dummy_get_max_temp(db) == db.max_temp
rtdb_dummy_get_min_temp(db) == db.min_temp
rtdb_dummy_get_sampling_rate(db) == db.sampling_rate_ms

byte_to_3ascii(n) ==
    <<CH_0 + ((n \div 100) % 10), CH_0 + ((n \div 10) % 10), CH_0 + (n % 10)>>

\* the uint8_t accumulations "sum += data[i]" of uartcomm_dummy.c
RECURSIVE dummy_sum(_, _, _)
dummy_sum(bytes, i, sum) ==
    IF i > Len(bytes) THEN sum
    ELSE dummy_sum(bytes, i + 1, ToUint8(sum + bytes[i]))

dummy_send_frame(cmd, data) ==
    <<CH_HASH, cmd>> \o data \o byte_to_3ascii(dummy_sum(data, 1, ToUint8(cmd))) \o <<CH_BANG>>

dummy_send_ack(code) == dummy_send_frame(CH_E, <<code>>)

\* lines 183-205
dummy_cmd_C(db, cs_rcv) ==
    LET c0 == rtdb_dummy_get_current_temp(db)
        cur == IF c0 < 0 THEN 0 ELSE IF c0 > 999 THEN 999 ELSE c0
        cur_str == <<CH_0 + ((cur \div 100) % 10), CH_0 + ((cur \div 10) % 10),
                     CH_0 + (cur % 10)>>
        sum_expected == ToUint8(CH_C + cur_str[1] + cur_str[2] + cur_str[3])
    IN  IF sum_expected # cs_rcv THEN Reply(db, <<dummy_send_ack(CH_s)>>)
        ELSE Reply(db, <<dummy_send_frame(CH_c, cur_str)>>)

\* lines 212-239
dummy_cmd_M(db, data, cs_rcv) ==
    IF Len(data) # 3 THEN Reply(db, <<dummy_send_ack(CH_i)>>)
    ELSE IF dummy_sum(data, 1, CH_M) # cs_rcv THEN Reply(db, <<dummy_send_ack(CH_s)>>)
    ELSE LET val == atoi(data)
         IN  IF val < rtdb_dummy_get_min_temp(db) THEN Reply(db, <<dummy_send_ack(CH_i)>>)
             ELSE Reply(rtdb_dummy_set_max_temp(db, ToInt16(val)), <<dummy_send_ack(CH_o)>>)

\* lines 242-269
dummy_cmd_m(db, data, cs_rcv) ==
    IF Len(data) # 3 THEN Reply(db, <<dummy_send_ack(CH_i)>>)
    ELSE IF dummy_sum(data, 1, CH_m) # cs_rcv THEN Reply(db, <<dummy_send_ack(CH_s)>>)
    ELSE LET val == atoi(data)
         IN  IF val > rtdb_dummy_get_max_temp(db) THEN Reply(db, <<dummy_send_ack(CH_i)>>)
             ELSE Reply(rtdb_dummy_set_min_temp(db, ToInt16(val)), <<dummy_send_ack(CH_o)>>)

\* lines 272-303
dummy_cmd_R(db, data, cs_rcv) ==
    IF Len(data) # 4 THEN Reply(db, <<dummy_send_ack(CH_i)>>)
    ELSE LET val == atoi(data)
         IN  IF val < 10 \/ val > 9999 THEN Reply(db, <<dummy_send_ack(CH_i)>>)
             ELSE IF dummy_sum(data, 1, CH_R) # cs_rcv
                  THEN Reply(db, <<dummy_send_ack(CH_s)>>)
             ELSE Reply(rtdb_dummy_set_sampling_rate(db, val), <<dummy_send_ack(CH_o)>>)

\* lines 306-326
dummy_cmd_r(db, data, cs_rcv) ==
    IF Len(data) # 0 THEN Reply(db, <<dummy_send_ack(CH_i)>>)
    ELSE IF CH_r # cs_rcv THEN Reply(db, <<dummy_send_ack(CH_s)>>)
    ELSE LET s0 == rtdb_dummy_get_sampling_rate(db)
             sr == IF s0 > 9999 THEN 9999 ELSE s0
             out == <<CH_0 + ((sr \div 1000) % 10), CH_0 + ((sr \div 100) % 10),
                      CH_0 + ((sr \div 10) % 10), CH_0 + (sr % 10)>>
         IN  Reply(db, <<dummy_send_frame(CH_s, out)>>)

dummy_cmd_E_unchecked(db, data, cs_rcv) ==
    IF Len(data) # 1 THEN Reply(db, <<dummy_send_ack(CH_i)>>)
    ELSE IF data[1] = CH_0 THEN Reply(rtdb_dummy_set_system_on(db, TRUE), <<dummy_send_ack(CH_o)>>)
    ELSE IF data[1] = CH_1 THEN Reply(rtdb_dummy_set_system_on(db, FALSE), <<dummy_send_ack(CH_o)>>)
    ELSE Reply(db, <<dummy_send_ack(CH_i)>>)

\* lines 329-350
dummy_cmd_E(db, data, cs_rcv) ==
    IF Len(data) # 1 THEN Reply(db, <<dummy_send_ack(CH_i)>>)
    ELSE IF ToUint8(CH_E + data[1]) # cs_rcv THEN Reply(db, <<dummy_send_ack(CH_s)>>)
    ELSE IF data[1] = CH_0 THEN Reply(rtdb_dummy_set_system_on(db, TRUE), <<dummy_send_ack(CH_o)>>)
    ELSE IF data[1] = CH_1 THEN Reply(rtdb_dummy_set_system_on(db, FALSE), <<dummy_send_ack(CH_o)>>)
    ELSE Reply(db, <<dummy_send_ack(CH_i)>>)

\* lines 353-368
dummy_cmd_S(db, data, cs_rcv) ==
    IF Len(data) < 1 THEN Reply(db, <<dummy_send_ack(CH_i)>>)
    ELSE IF dummy_sum(data, 1, CH_S) # cs_rcv THEN Reply(db, <<dummy_send_ack(CH_s)>>)
    ELSE Reply(db, <<dummy_send_ack(CH_o)>>)

\* lines 371-382
dummy_cmd_other(db, cmd, data, cs_rcv) ==
    IF dummy_sum(data, 1, ToUint8(cmd)) # cs_rcv
    THEN Reply(db, <<dummy_send_ack(CH_s), dummy_send_ack(CH_i)>>)
    ELSE Reply(db, <<dummy_send_ack(CH_i)>>)

dummy_handle_command(db, b, len) ==
    IF len < 6 THEN Reply(db, <<dummy_send_ack(CH_f)>>)
    ELSE IF b[1] # CH_HASH \/ b[len] # CH_BANG THEN Reply(db, <<dummy_send_ack(CH_f)>>)
    ELSE
        LET cmd == b[2]
            cs_rcv == ToUint8(atoi(<<b[len - 3], b[len - 2], b[len - 1]>>))
            data == SubSeq(b, 3, len - 4)
        IN  IF cmd = CH_C THEN dummy_cmd_C(db, cs_rcv)
            ELSE IF cmd = CH_M THEN dummy_cmd_M(db, data, cs_rcv)
            ELSE IF cmd = CH_m THEN dummy_cmd_m(db, data, cs_rcv)
            ELSE IF cmd = CH_R THEN dummy_cmd_R(db, data, cs_rcv)
            ELSE IF cmd = CH_r THEN dummy_cmd_r(db, data, cs_rcv)
            ELSE IF cmd = CH_E THEN dummy_cmd_E(db, data, cs_rcv)
            ELSE IF cmd = CH_S THEN dummy_cmd_S(db, data, cs_rcv)
            ELSE dummy_cmd_other(db, cmd, data, cs_rcv)

(***************************************************************************)
(* Output capture of the host build: send_byte appends to uart_test_buffer *)
(* while there is room, clear_uart_test_output empties it.                 *)
(***************************************************************************)
UART_TEST_BUFFER_SIZE == 2048

send_byte(out, b) ==
    IF Len(out) < UART_TEST_BUFFER_SIZE - 1 THEN Append(out, b) ELSE out

RECURSIVE send_bytes(_, _, _)
send_bytes(out, frame, i) ==
    IF i > Len(frame) THEN out
    ELSE send_bytes(send_byte(out, frame[i]), frame, i + 1)

RECURSIVE send_frames(_, _, _)
send_frames(out, frames, k) ==
    IF k > Len(frames) THEN out
    ELSE send_frames(send_bytes(out, frames[k], 1), frames, k + 1)

clear_uart_test_output == <<>>

(***************************************************************************)
(* Frame-level harness: the same byte array is handed to handle_command of *)
(* the firmware and to handle_command of the host build, as the unit tests *)
(* do (a cleared capture buffer, then one call).                           *)
(***************************************************************************)
CH_X == 88

RECURSIVE SumBytes(_, _)
SumBytes(bytes, i) == IF i > Len(bytes) THEN 0 ELSE bytes[i] + SumBytes(bytes, i + 1)

Frame(cmd, data, cs) == <<CH_HASH, cmd>> \o data \o byte_to_3ascii(cs) \o <<CH_BANG>>

\* payloads tried per command: in range, out of range, wrong length
Payloads(cmd) ==
    CASE cmd = CH_C -> {<<>>, <<48, 48, 48>>}
      [] cmd = CH_M -> {<<48, 53, 48>>, <<48, 50, 50>>, <<48, 49, 48>>, <<49, 50>>}
      [] cmd = CH_m -> {<<48, 51, 48>>, <<48, 57, 48>>, <<48, 53>>}
      [] cmd = CH_R -> {<<48, 48, 48, 53>>, <<51, 52, 53, 54>>, <<49, 50, 51>>}
      [] cmd = CH_r -> {<<>>, <<48>>}
      [] cmd = CH_E -> {<<48>>, <<49>>, <<50>>, <<48, 49>>}
      [] cmd = CH_S -> {<<>>, <<49>>, <<49, 50>>}
      [] OTHER      -> {<<>>, <<48, 48, 48>>}

\* checksum fields tried: the sum over command and data, the command byte
\* alone, zero, for C the sums that include the temperature digits, and for R
\* the field of test_set_sampling_rate_below_min_uart
ChecksumFields(cmd, data) ==
    {(cmd + SumBytes(data, 1)) % 256, cmd % 256, 0}
        \cup (IF cmd = CH_C THEN {211, 217, 238} ELSE {})
        \cup (IF cmd = CH_R THEN {231} ELSE {})

DispatchCmds == {CH_C, CH_M, CH_m, CH_R, CH_r, CH_E, CH_S, CH_X}

WellFormedFrames ==
    {Frame(cmd, data, cs) : <<cmd, data, cs>> \in
        UNION {UNION {{<<c, d, k>> : k \in ChecksumFields(c, d)} : d \in Payloads(c)} :
               c \in DispatchCmds}}

MalformedFrames ==
    { <<CH_HASH, CH_C, CH_BANG>>,
      <<CH_HASH, CH_C, CH_0, CH_BANG>>,
      <<CH_HASH, CH_E, CH_1, 49, CH_BANG>>,
      <<CH_X, CH_C, CH_0, CH_0, CH_0, CH_BANG>>,
      <<CH_HASH, CH_C, CH_0, CH_0, CH_0, 32>>,
      <<CH_FILL, CH_E, CH_1, 49, 49, 56, CH_BANG>>,
      <<CH_HASH, CH_E, CH_1, 49, 49, 56, CH_FILL>> }

DispatchFrames == WellFormedFrames \cup MalformedFrames

DispatchTemps == {0, 42, 0 - 5, 1000}

HandleFrame(f) ==
    /\ LET out == handle_command(rtdb, f, Len(f))
           dummy_out == dummy_handle_command(rtdb_dummy, f, Len(f))
       IN  /\ rtdb' = out.db
           /\ tx' = out.tx
           /\ rtdb_dummy' = dummy_out.db
           /\ uart_test_buffer' = send_frames(clear_uart_test_output, dummy_out.tx, 1)
    /\ disp' = <<f>>

Dispatch(f) ==
    /\ HandleFrame(f)
    /\ UNCHANGED <<call, ctrlVars, offTicks, idx, buf, byte, lockVars>>

\* the sensor task (firmware) and the test body (host build) store a reading
SensorReading(t) ==
    /\ rtdb' = rtdb_set_current_temp(rtdb, t)
    /\ rtdb_dummy' = rtdb_dummy_set_current_temp(rtdb_dummy, t)
    /\ tx' = <<>>
    /\ disp' = <<>>
    /\ uart_test_buffer' = clear_uart_test_output
    /\ UNCHANGED <<call, ctrlVars, offTicks, idx, buf, byte, lockVars>>

DispatchRates == {60000}

\* a direct call of the store's sampling-rate mutator, as the test body of
\* test_get_sampling_rate_ok makes before it queries the rate
StoreSamplingRate(ms) ==
    /\ rtdb' = rtdb_set_sampling_rate(rtdb, ms)
    /\ rtdb_dummy' = rtdb_dummy_set_sampling_rate(rtdb_dummy, ms)
    /\ tx' = <<>>
    /\ disp' = <<>>
    /\ uart_test_buffer' = clear_uart_test_output
    /\ UNCHANGED <<call, ctrlVars, offTicks, idx, buf, byte, lockVars>>

NextDispatch ==
    \/ \E f \in DispatchFrames : Dispatch(f)
    \/ \E t \in DispatchTemps : SensorReading(t)
    \/ \E ms \in DispatchRates : StoreSamplingRate(ms)

SpecDispatch == Init /\ [][NextDispatch]_vars

(***************************************************************************)
(* Repeated commands: the host sends a valid command frame and may send    *)
(* the same frame again.  call.arg counts the successive calls of          *)
(* handle_command on the same frame (1, then 2 from the second call on).   *)
(***************************************************************************)
RepeatFrames ==
    {f \in WellFormedFrames :
        /\ f[2] \in {CH_M, CH_m, CH_C, CH_R, CH_r, CH_E, CH_S}
        /\ calculate_checksum(SubSeq(f, 2, Len(f) - 4))
               = ToUint8(atoi(SubSeq(f, Len(f) - 3, Len(f) - 1)))}

DispatchCounted(f) ==
    /\ HandleFrame(f)
    /\ call' = [op |-> "handle_command", arg |-> IF disp = <<f>> THEN 2 ELSE 1, ret |-> 0]
    /\ UNCHANGED <<ctrlVars, offTicks, idx, buf, byte, lockVars>>

NextRepeat ==
    \/ \E f \in RepeatFrames : DispatchCounted(f)
    \/ \E t \in DispatchTemps : SensorReading(t)
    \/ \E ms \in DispatchRates : StoreSamplingRate(ms)

SpecRepeat == Init /\ [][NextRepeat]_vars

(***************************************************************************)
(* The store under its mutex, one step per statement of rtdb.c.  Every     *)
(* operation is k_mutex_lock, the body, k_mutex_unlock.  A thread that     *)
(* calls k_mutex_lock waits while another thread owns the mutex; the owner *)
(* itself may lock again (the count goes up).  inc_pressed is a GPIO       *)
(* interrupt callback: it runs to completion on top of the interrupted     *)
(* thread, and its k_mutex_lock is made under that thread's identity.      *)
(* k_mutex_lock is not defined for interrupt context: the call either      *)
(* stops the system (kernel assertion, or waiting inside the interrupt) or *)
(* goes through exactly as it would for the interrupted thread.            *)
(***************************************************************************)
MaxPresses == 1

LockMaxArgs == {25, 27}

LockMinArgs == {20, 24}

StoreCalls(t) ==
    IF t = "uart_task"
    THEN {[op |-> "set_max_temp", arg |-> v] : v \in LockMaxArgs}
            \cup {[op |-> "set_min_temp", arg |-> v] : v \in LockMinArgs}
    ELSE {[op |-> "get_system_on", arg |-> 0], [op |-> "get_setpoint", arg |-> 0],
          [op |-> "get_current_temp", arg |-> 0]}

otherVars == <<call, ctrlVars, offTicks, uartVars, dummyVars>>

InHandler == \E h \in Handlers : task[h].pc # "idle"

\* a thread calls a store operation
StoreCall(t, c) ==
    /\ ~InHandler
    /\ task[t].pc = "idle"
    /\ task' = [task EXCEPT ![t] = [@ EXCEPT !.pc = "lock", !.op = c.op, !.arg = c.arg,
                                             !.ctx = t]]
    /\ UNCHANGED <<rtdb, rtdb_mutex, otherVars>>

k_mutex_lock(m, who) == [owner |-> who, lock_count |-> m.lock_count + 1]

k_mutex_available(m, who) == m.lock_count = 0 \/ m.owner = who

k_mutex_unlock(m) ==
    IF m.lock_count > 1 THEN [m EXCEPT !.lock_count = @ - 1] ELSE k_mutex_init

\* k_mutex_lock(&rtdb_mutex, K_FOREVER) in a thread
Lock(t) ==
    /\ ~InHandler
    /\ task[t].pc = "lock"
    /\ k_mutex_available(rtdb_mutex, t)
    /\ rtdb_mutex' = k_mutex_lock(rtdb_mutex, t)
    /\ task' = [task EXCEPT ![t].pc = "body"]
    /\ UNCHANGED <<rtdb, otherVars>>

rtdb_write_max_temp(db, val) == [db EXCEPT !.max_temp = val]

rtdb_clamp_to_max(db) ==
    IF db.setpoint > db.max_temp THEN [db EXCEPT !.setpoint = db.max_temp] ELSE db

rtdb_write_min_temp(db, val) == [db EXCEPT !.min_temp = val]

rtdb_clamp_to_min(db) ==
    IF db.setpoint < db.min_temp THEN [db EXCEPT !.setpoint = db.min_temp] ELSE db

\* the statements between lock and unlock, for a thread or for the callback
Body(x) ==
    /\ x \in Threads => ~InHandler
    /\ LET me == task[x]
       IN  \/ /\ me.pc = "body" /\ me.op = "get_system_on"
              /\ task' = [task EXCEPT ![x] = [@ EXCEPT !.pc = "unlock",
                              !.v = IF rtdb_get_system_on(rtdb) THEN 1 ELSE 0]]
              /\ UNCHANGED rtdb
           \/ /\ me.pc = "body" /\ me.op = "get_setpoint"
              /\ task' = [task EXCEPT ![x] = [@ EXCEPT !.pc = "unlock",
                                                       !.v = rtdb_get_setpoint(rtdb)]]
              /\ UNCHANGED rtdb
           \/ /\ me.pc = "body" /\ me.op = "get_current_temp"
              /\ task' = [task EXCEPT ![x] = [@ EXCEPT !.pc = "unlock",
                                                       !.v = rtdb_get_current_temp(rtdb)]]
              /\ UNCHANGED rtdb
           \/ /\ me.pc = "body" /\ me.op = "get_max_temp"
              /\ task' = [task EXCEPT ![x] = [@ EXCEPT !.pc = "unlock",
                                                       !.v = rtdb_get_max_temp(rtdb)]]
              /\ UNCHANGED rtdb
           \/ /\ me.pc = "body" /\ me.op = "set_setpoint"
              /\ rtdb' = rtdb_set_setpoint(rtdb, me.arg)
              /\ task' = [task EXCEPT ![x].pc = "unlock"]
           \/ /\ me.pc = "body" /\ me.op = "set_max_temp"
              /\ rtdb' = rtdb_write_max_temp(rtdb, me.arg)
              /\ task' = [task EXCEPT ![x].pc = "clamp"]
           \/ /\ me.pc = "clamp" /\ me.op = "set_max_temp"
              /\ rtdb' = rtdb_clamp_to_max(rtdb)
              /\ task' = [task EXCEPT ![x].pc = "unlock"]
           \/ /\ me.pc = "body" /\ me.op = "set_min_temp"
              /\ rtdb' = rtdb_write_min_temp(rtdb, me.arg)
              /\ task' = [task EXCEPT ![x].pc = "clamp"]
           \/ /\ me.pc = "clamp" /\ me.op = "set_min_temp"
              /\ rtdb' = rtdb_clamp_to_min(rtdb)
              /\ task' = [task EXCEPT ![x].pc = "unlock"]
    /\ UNCHANGED <<rtdb_mutex, otherVars>>

\* k_mutex_unlock(&rtdb_mutex) and return, in a thread
Unlock(t) ==
    /\ ~InHandler
    /\ task[t].pc = "unlock"
    /\ rtdb_mutex' = k_mutex_unlock(rtdb_mutex)
    /\ task' = [task EXCEPT ![t] = [@ EXCEPT !.pc = "idle", !.ctx = "none"]]
    /\ UNCHANGED <<rtdb, otherVars>>

\* the pin interrupt fires while thread t is running and the debounce test
\* of inc_pressed passes: the first store call is rtdb_get_setpoint()
Interrupt(t) ==
    /\ ~InHandler
    /\ task[Handler].n < MaxPresses
    /\ task' = [task EXCEPT ![Handler] = [@ EXCEPT !.pc = "lock", !.op = "get_setpoint",
                                  !.arg = 0, !.ctx = t, !.k = 1, !.n = @ + 1]]
    /\ UNCHANGED <<rtdb, rtdb_mutex, otherVars>>

\* k_mutex_lock inside the callback goes through under the identity of the
\* interrupted thread
IsrLock ==
    /\ task[Handler].pc = "lock"
    /\ k_mutex_available(rtdb_mutex, task[Handler].ctx)
    /\ rtdb_mutex' = k_mutex_lock(rtdb_mutex, task[Handler].ctx)
    /\ task' = [task EXCEPT ![Handler].pc = "body"]
    /\ UNCHANGED <<rtdb, otherVars>>

\* k_mutex_lock inside the callback stops the system
IsrLockFatal ==
    /\ task[Handler].pc = "lock"
    /\ task' = [task EXCEPT ![Handler].pc = "fatal"]
    /\ UNCHANGED <<rtdb, rtdb_mutex, otherVars>>

\* k_mutex_unlock inside the callback, then the next statement of inc_pressed
IsrUnlock ==
    /\ task[Handler].pc = "unlock"
    /\ rtdb_mutex' = k_mutex_unlock(rtdb_mutex)
    /\ LET me == task[Handler]
       IN  task' = [task EXCEPT ![Handler] =
              CASE me.k = 1 -> [me EXCEPT !.pc = "lock", !.op = "set_setpoint",
                                          !.arg = ToInt16(me.v + 1), !.k = 2]
                [] me.k = 2 -> [me EXCEPT !.pc = "lock", !.op = "get_setpoint", !.k = 3]
                [] me.k = 3 -> [me EXCEPT !.pc = "lock", !.op = "get_max_temp", !.k = 4]
                [] OTHER    -> [me EXCEPT !.pc = "idle", !.op = "none", !.arg = 0, !.v = 0,
                                          !.ctx = "none", !.k = 0]]
    /\ UNCHANGED <<rtdb, otherVars>>

ThreadStep(t) ==
    \/ \E c \in StoreCalls(t) : StoreCall(t, c)
    \/ Lock(t)
    \/ Body(t)
    \/ Unlock(t)

HandlerStep ==
    \/ \E t \in Threads : Interrupt(t)
    \/ IsrLock
    \/ IsrLockFatal
    \/ Body(Handler)
    \/ IsrUnlock

NextLock ==
    \/ \E t \in Threads : ThreadStep(t)
    \/ HandlerStep

SpecLock == Init /\ [][NextLock]_vars

\* fair scheduling: a thread inside an operation keeps running, a thread
\* waiting for the mutex gets it once it is released often enough (the
\* kernel's wait queue), and a started callback runs on
LockFairness ==
    /\ \A t \in Threads : WF_vars(Body(t) \/ Unlock(t)) /\ SF_vars(Lock(t))
    /\ WF_vars(IsrLock \/ IsrLockFatal \/ Body(Handler) \/ IsrUnlock)

SpecLockFair == Init /\ [][NextLock]_vars /\ LockFairness

(***************************************************************************)
(* The two setpoint buttons.  inc_pressed and dec_pressed are callbacks of *)
(* the same GPIO port interrupt (SW1 and SW3, pins of port 0): the         *)
(* interrupt service routine calls them one after the other, so a callback *)
(* that has started returns before the other one starts, while the thread  *)
(* it interrupted stands still wherever it was, possibly between the lock  *)
(* and the unlock of a store call.  A press that arrives during a callback *)
(* is served after it.  call keeps the setpoint read before the first      *)
(* press.                                                                  *)
(***************************************************************************)
dec_tentativa_keep(v) == ToInt16(v)

\* "tentativa = rtdb_get_setpoint() + 1" and "- 1"
inc_tentativa(v) == ToInt16(v + 1)

dec_tentativa(v) == ToInt16(v - 1)

NoPressYet == \A h \in Handlers : task[h].n = 0

\* the pin interrupt runs callback h on top of thread t and the debounce
\* test passes: the first store call is rtdb_get_setpoint()
Press(h, t) ==
    /\ ~InHandler
    /\ task[h].n < MaxPresses
    /\ task' = [task EXCEPT ![h] = [@ EXCEPT !.pc = "lock", !.op = "get_setpoint",
                                            !.arg = 0, !.ctx = t, !.k = 1, !.n = @ + 1]]
    /\ call' = IF NoPressYet THEN [op |-> "press", arg |-> rtdb.setpoint, ret |-> 0]
               ELSE call
    /\ UNCHANGED <<rtdb, rtdb_mutex, ctrlVars, offTicks, uartVars, dummyVars>>

PressLock(h) ==
    /\ task[h].pc = "lock"
    /\ k_mutex_available(rtdb_mutex, task[h].ctx)
    /\ rtdb_mutex' = k_mutex_lock(rtdb_mutex, task[h].ctx)
    /\ task' = [task EXCEPT ![h].pc = "body"]
    /\ UNCHANGED <<rtdb, otherVars>>

PressLockFatal(h) ==
    /\ task[h].pc = "lock"
    /\ task' = [task EXCEPT ![h].pc = "fatal"]
    /\ UNCHANGED <<rtdb, rtdb_mutex, otherVars>>

\* the statements between lock and unlock of the store calls made by the
\* callbacks and by control_task
PressBody(x) ==
    /\ x \in Threads => ~InHandler
    /\ LET me == task[x]
       IN  \/ /\ me.pc = "body" /\ me.op = "get_system_on"
              /\ task' = [task EXCEPT ![x] = [@ EXCEPT !.pc = "unlock",
                              !.v = IF rtdb_get_system_on(rtdb) THEN 1 ELSE 0]]
              /\ UNCHANGED rtdb
           \/ /\ me.pc = "body" /\ me.op = "get_setpoint"
              /\ task' = [task EXCEPT ![x] = [@ EXCEPT !.pc = "unlock",
                                                       !.v = rtdb_get_setpoint(rtdb)]]
              /\ UNCHANGED rtdb
           \/ /\ me.pc = "body" /\ me.op = "get_current_temp"
              /\ task' = [task EXCEPT ![x] = [@ EXCEPT !.pc = "unlock",
                                                       !.v = rtdb_get_current_temp(rtdb)]]
              /\ UNCHANGED rtdb
           \/ /\ me.pc = "body" /\ me.op = "get_max_temp"
              /\ task' = [task EXCEPT ![x] = [@ EXCEPT !.pc = "unlock",
                                                       !.v = rtdb_get_max_temp(rtdb)]]
              /\ UNCHANGED rtdb
           \/ /\ me.pc = "body" /\ me.op = "get_min_temp"
              /\ task' = [task EXCEPT ![x] = [@ EXCEPT !.pc = "unlock",
                                                       !.v = rtdb_get_min_temp(rtdb)]]
              /\ UNCHANGED rtdb
           \/ /\ me.pc = "body" /\ me.op = "set_setpoint"
              /\ rtdb' = rtdb_set_setpoint(rtdb, me.arg)
              /\ task' = [task EXCEPT ![x].pc = "unlock"]
    /\ UNCHANGED <<rtdb_mutex, otherVars>>

\* k_mutex_unlock inside the callback, then the next statement of the callback
PressUnlock(h) ==
    /\ h \in Handlers
    /\ task[h].pc = "unlock"
    /\ rtdb_mutex' = k_mutex_unlock(rtdb_mutex)
    /\ LET me == task[h]
       IN  task' = [task EXCEPT ![h] =
              CASE me.k = 1 -> [me EXCEPT !.pc = "lock", !.op = "set_setpoint",
                                          !.arg = IF h = "inc_pressed" THEN inc_tentativa(me.v)
                                                  ELSE dec_tentativa(me.v),
                                          !.k = 2]
                [] me.k = 2 -> [me EXCEPT !.pc = "lock", !.op = "get_setpoint", !.k = 3]
                [] me.k = 3 -> [me EXCEPT !.pc = "lock",
                                          !.op = IF h = "inc_pressed" THEN "get_max_temp"
                                                 ELSE "get_min_temp",
                                          !.k = 4]
                [] OTHER    -> [me EXCEPT !.pc = "idle", !.op = "none", !.arg = 0, !.v = 0,
                                          !.ctx = "none", !.k = 0]]
    /\ UNCHANGED <<rtdb, otherVars>>

NextPress ==
    \/ \E c \in StoreCalls("control_task") : StoreCall("control_task", c)
    \/ Lock("control_task")
    \/ PressBody("control_task")
    \/ Unlock("control_task")
    \/ \E h \in Handlers : \E t \in Threads : Press(h, t)
    \/ \E h \in Handlers : PressLock(h)
    \/ \E h \in Handlers : PressLockFatal(h)
    \/ \E h \in Handlers : PressBody(h)
    \/ \E h \in Handlers : PressUnlock(h)

SpecPress == Init /\ [][NextPress]_vars

(***************************************************************************)
(* The dispatcher running beside the other tasks: between two frames the   *)
(* button callbacks store a setpoint or the on/off flag and the sensor     *)
(* task stores a reading.  Each store call is one step (it holds           *)
(* rtdb_mutex from its first access to its last).                          *)
(***************************************************************************)
\* correctly checksummed frames of the commands that write limits or on/off
LimitFrames == {f \in RepeatFrames : f[2] \in {CH_M, CH_m, CH_E}}

\* values stored by inc_pressed / dec_pressed: either side of every limit
\* the frames above can set, and of the defaults
ButtonSetpoints == {19, 21, 23, 29, 31, 49, 51, 79, 81}

InterleaveTemps == {0, 42}

\* rtdb_set_setpoint called by a button callback
ButtonSetpoint(v) ==
    /\ rtdb' = rtdb_set_setpoint(rtdb, v)
    /\ rtdb_dummy' = rtdb_dummy_set_setpoint(rtdb_dummy, v)
    /\ tx' = <<>>
    /\ disp' = <<>>
    /\ uart_test_buffer' = clear_uart_test_output
    /\ UNCHANGED <<call, ctrlVars, offTicks, idx, buf, byte, lockVars>>

\* rtdb_set_system_on called by onoff_pressed
ButtonSystemOn(on) ==
    /\ rtdb' = rtdb_set_system_on(rtdb, on)
    /\ rtdb_dummy' = rtdb_dummy_set_system_on(rtdb_dummy, on)
    /\ tx' = <<>>
    /\ disp' = <<>>
    /\ uart_test_buffer' = clear_uart_test_output
    /\ UNCHANGED <<call, ctrlVars, offTicks, idx, buf, byte, lockVars>>

NextInterleave ==
    \/ \E f \in LimitFrames : Dispatch(f)
    \/ \E v \in ButtonSetpoints : ButtonSetpoint(v)
    \/ \E on \in BOOLEAN : ButtonSystemOn(on)
    \/ \E t \in InterleaveTemps : SensorReading(t)

SpecInterleave == Init /\ [][NextInterleave]_vars

(***************************************************************************)
(* The checksum field as the dispatcher reads it: cs_str holds the three   *)
(* characters before '!', whatever they are, and cs_rcv is                 *)
(* (uint8_t)atoi(cs_str).  The frames below carry a command with data of   *)
(* the right length and in range, and every kind of three characters in    *)
(* the checksum field.                                                     *)
(***************************************************************************)
FieldCommands ==
    { <<CH_r, <<>> >>, <<CH_E, <<48>> >>, <<CH_E, <<49>> >>, <<CH_S, <<49>> >>,
      <<CH_S, <<88, 89>> >>, <<CH_M, <<48, 53, 48>> >>, <<CH_m, <<48, 51, 48>> >>,
      <<CH_X, <<>> >> }

\* three characters for a checksum cs: its rendering, the rendering of another
\* value, of cs + 256 and cs + 512, "300", letters, and renderings of cs that
\* are not zero-padded or are followed by a letter
FieldChars(cs) ==
    {byte_to_3ascii(cs), byte_to_3ascii((cs + 1) % 256),
     <<48 + ((cs + 256) \div 100), 48 + (((cs + 256) \div 10) % 10), 48 + ((cs + 256) % 10)>>,
     <<48 + ((cs + 512) \div 100), 48 + (((cs + 512) \div 10) % 10), 48 + ((cs + 512) % 10)>>,
     <<51, 48, 48>>, <<97, 98, 99>>}
        \cup (IF cs < 100
              THEN {<<32, 48 + (cs \div 10), 48 + (cs % 10)>>,
                    <<43, 48 + (cs \div 10), 48 + (cs % 10)>>}
              ELSE {})
        \cup (IF cs >= 10 /\ cs < 100
              THEN {<<48 + (cs \div 10), 48 + (cs % 10), 120>>}
              ELSE {})
        \cup (IF cs < 10 THEN {<<48 + cs, 120, 120>>, <<32, 32, 48 + cs>>} ELSE {})

FieldFrames ==
    UNION {{<<CH_HASH, c[1]>> \o c[2] \o k \o <<CH_BANG>> :
                k \in FieldChars((c[1] + SumBytes(c[2], 1)) % 256)} : c \in FieldCommands}

NextField == \E f \in FieldFrames : Dispatch(f)

SpecField == Init /\ [][NextField]_vars

(***************************************************************************)
(* calculate_checksum as a function of its buffer: short buffers over a    *)
(* few letters, the buffers of test_checksum_values, and runs of one byte  *)
(* long enough for the uint16_t accumulator to pass 65535.                 *)
(***************************************************************************)
MaxShort == 3

MaxRun == 262

ShortBufs == UNION {[1..n -> {65, 66, 67}] : n \in 0..MaxShort}

RunBufs == {[i \in 1..n |-> b] : n \in (MaxRun - 6)..MaxRun, b \in {250, 255}}

ChecksumBufs == ShortBufs \cup RunBufs \cup {<<77, 48, 50, 53>>}

ChecksumBuilds == {"uartcomm.c", "uartcomm_dummy.c"}

InitChecksum ==
    /\ call \in [op : {"calculate_checksum"}, build : ChecksumBuilds, done : {FALSE},
                 buf : ChecksumBufs, i : {0}, sum : {0}, ret : {0}]
    /\ rtdb = g_rtdb
    /\ ctrl = [pc |-> "read_on", system_on |-> FALSE, sp |-> 0, cur |-> 0, heater |-> FALSE,
               started |-> FALSE]
    /\ gate = 1
    /\ offTicks = 0
    /\ tickFresh = FALSE
    /\ idx = 0
    /\ buf = <<>>
    /\ byte = 0
    /\ tx = <<>>
    /\ disp = <<>>
    /\ rtdb_dummy = g_rtdb_dummy
    /\ uart_test_buffer = <<>>
    /\ rtdb_mutex = k_mutex_init
    /\ task = [x \in Tasks |-> TaskIdle]

\* one pass of "for (i = 0; i < len; i++) sum += buf[i]" (i counts from 0)
ChecksumLoop ==
    /\ call.op = "calculate_checksum"
    /\ ~call.done
    /\ call.i < Len(call.buf)
    /\ call' = [call EXCEPT !.i = call.i + 1,
                            !.sum = checksum_add(call.sum, call.buf[call.i + 1])]
    /\ UNCHANGED <<rtdb, ctrlVars, offTicks, uartVars, dummyVars, lockVars>>

\* "return (uint8_t)(sum & 0xFF)"
ChecksumReturn ==
    /\ call.op = "calculate_checksum"
    /\ ~call.done
    /\ call.i >= Len(call.buf)
    /\ call' = [call EXCEPT !.done = TRUE, !.ret = ToUint8(call.sum % 256)]
    /\ UNCHANGED <<rtdb, ctrlVars, offTicks, uartVars, dummyVars, lockVars>>

NextChecksum == ChecksumLoop \/ ChecksumReturn

SpecChecksum == InitChecksum /\ [][NextChecksum]_vars

(***************************************************************************)
(* State Store properties.                                                 *)
(***************************************************************************)

\* C1: in every state reached by store mutator calls with arbitrary
\* arguments, min_temp <= setpoint <= max_temp.
C1_SetpointWithinLimits ==
    rtdb.min_temp <= rtdb.setpoint /\ rtdb.setpoint <= rtdb.max_temp

\* C2: set_setpoint(v) followed immediately by get_setpoint() returns v when
\* min_temp <= v <= max_temp, min_temp when v < min_temp and max_temp when
\* v > max_temp.
C2_SetThenGetIsClamp ==
    [][ (call.op = "set_setpoint" /\ call'.op = "get_setpoint") =>
            LET v == call.arg
                r == call'.ret
            IN  /\ (rtdb.min_temp <= v /\ v <= rtdb.max_temp) => r = v
                /\ (v < rtdb.min_temp) => r = rtdb.min_temp
                /\ (v > rtdb.max_temp) => r = rtdb.max_temp ]_vars

\* C3: sampling_rate_ms is within [10, 60000] in every reachable state, and
\* set_sampling_rate(ms) stores 10 when ms < 10, 60000 when ms > 60000 and ms
\* otherwise.
C3_SamplingRateClamped ==
    /\ rtdb.sampling_rate_ms >= 10 /\ rtdb.sampling_rate_ms <= 60000
    /\ call.op = "set_sampling_rate" =>
           rtdb.sampling_rate_ms =
               (IF call.arg < 10 THEN 10 ELSE IF call.arg > 60000 THEN 60000 ELSE call.arg)

C3_Witness ==
    /\ call.op = "set_sampling_rate"
    /\ call.arg > 60000
    /\ rtdb.sampling_rate_ms = 60000

(***************************************************************************)
(* Control law properties.                                                 *)
(***************************************************************************)

\* C4: for all inputs, min_temp > max_temp included, the control law returns
\* the result of the first matching rule: system off -> OFF; current_temp >
\* max_temp -> OFF; current_temp < min_temp -> ON; current_temp < setpoint ->
\* ON; otherwise OFF.  The result is a function of the five other inputs, so
\* it does not depend on heater_was_on.
C4_FirstMatchingRule ==
    (call.op = "compute" /\ call.done) =>
        LET off == ~call.system_on
            hot == call.current_temp > call.max_temp
            cold == call.current_temp < call.min_temp
            below == call.current_temp < call.setpoint
        IN  /\ off => call.ret = FALSE
            /\ (~off /\ hot) => call.ret = FALSE
            /\ (~off /\ ~hot /\ cold) => call.ret = TRUE
            /\ (~off /\ ~hot /\ ~cold /\ below) => call.ret = TRUE
            /\ (~off /\ ~hot /\ ~cold /\ ~below) => call.ret = FALSE

C4_Witness ==
    /\ call.op = "compute" /\ call.done
    /\ call.system_on
    /\ call.min_temp > call.max_temp
    /\ call.current_temp > call.max_temp
    /\ call.current_temp < call.min_temp
    /\ call.heater_was_on
    /\ call.ret = FALSE

(***************************************************************************)
(* Controller task properties.                                             *)
(***************************************************************************)

\* C5: once system_on is false and stays false, the heater is commanded OFF
\* (heater flag false, active-low gate at 1) from the next controller tick
\* onward and at every later tick, whatever the temperatures and the previous
\* heater state.
C5_OffStaysOff ==
    offTicks >= 1 => (ctrl.heater = FALSE /\ gate = 1)

C5_Witness ==
    /\ offTicks >= 2
    /\ ctrl.pc = "sleep"
    /\ ~ctrl.system_on
    /\ ctrl.cur >= ctrl.sp + 1

\* C6: with system_on true, a tick that reads current_temp <= setpoint - 1
\* switches the heater ON (gate driven to 0) and a tick that reads
\* current_temp >= setpoint + 1 switches it OFF (gate driven to 1).
C6_HysteresisDirection ==
    (ctrl.pc = "sleep" /\ ctrl.system_on) =>
        /\ (ctrl.cur <= ctrl.sp - 1) => gate = 0
        /\ (ctrl.cur >= ctrl.sp + 1) => gate = 1

(***************************************************************************)
(* Framer properties.  A step of the framer is the reception of one byte:  *)
(* byte' is the byte received, idx and buf are the framer before it, tx'   *)
(* and disp' what was sent and dispatched while handling it.               *)
(***************************************************************************)
AckFraming == <<35, 69, 102, 49, 55, 49, 33>>    \* "#Ef171!"

\* C7: when '!' arrives while IN_FRAME, the buffer (every byte since the
\* opening '#', then the '!') is handed to the dispatcher exactly once and
\* the framer is IDLE with an empty buffer afterwards.
C7_CloseDispatchesOnce ==
    [][ (idx > 0 /\ byte' = CH_BANG) =>
            /\ buf[1] = CH_HASH
            /\ disp' = <<buf \o <<CH_BANG>>>>
            /\ idx' = 0
            /\ buf' = <<>> ]_vars

C7_Witness ==
    /\ byte = CH_BANG
    /\ idx = 0
    /\ Len(disp) = 1
    /\ Len(disp[1]) = 7
    /\ rtdb.system_on = FALSE

\* C8: when '#' arrives while IN_FRAME, exactly one framing-error ack is
\* sent, nothing is handed to the dispatcher, and the framer stays IN_FRAME
\* with a buffer holding only the new '#' (the abandoned bytes are gone).
C8_HashRestartsFrame ==
    [][ (idx > 0 /\ byte' = CH_HASH) =>
            /\ tx' = <<AckFraming>>
            /\ disp' = <<>>
            /\ idx' = 1
            /\ buf' = <<CH_HASH>> ]_vars

C8_Witness ==
    /\ byte = CH_HASH
    /\ idx = 1
    /\ buf = <<CH_HASH>>
    /\ tx = <<AckFraming>>

\* C9: when the buffer reaches its capacity of 64 bytes without a closing
\* '!', exactly one framing-error ack is sent, the buffer is discarded
\* without being dispatched and the framer returns to IDLE; a frame whose
\* 64th byte is the closing '!' is dispatched, not rejected.
C9_OverflowDiscards ==
    [][ /\ (idx = 63 /\ byte' \notin {CH_BANG, CH_HASH, CH_CR, CH_LF}) =>
              /\ tx' = <<AckFraming>>
              /\ disp' = <<>>
              /\ idx' = 0
              /\ buf' = <<>>
        /\ (idx = 63 /\ byte' = CH_BANG) =>
              /\ Len(disp') = 1
              /\ Len(disp'[1]) = 64
              /\ disp'[1] = buf \o <<CH_BANG>> ]_vars

C9_Witness ==
    /\ byte = CH_FILL
    /\ idx = 0
    /\ disp = <<>>
    /\ tx = <<AckFraming>>

\* C10: a '!' received while IDLE sends exactly one framing-error ack and
\* leaves the framer IDLE with an empty buffer and the store unchanged.
C10_BangWhileIdle ==
    [][ (idx = 0 /\ byte' = CH_BANG) =>
            /\ tx' = <<AckFraming>>
            /\ disp' = <<>>
            /\ idx' = 0
            /\ buf' = <<>>
            /\ rtdb' = rtdb ]_vars

C10_Witness ==
    /\ byte = CH_BANG
    /\ idx = 0
    /\ disp = <<>>
    /\ tx = <<AckFraming>>

AckOk == <<35, 69, 111, 49, 56, 48, 33>>         \* "#Eo180!"
FrameSystemOff == <<35, 69, 49, 49, 49, 56, 33>>  \* "#E1118!"
FrameSystemOn == <<35, 69, 48, 49, 49, 55, 33>>   \* "#E0117!"

\* C11: a byte other than '#' and '!' received while IDLE is discarded: no
\* response, the framer stays IDLE with an empty buffer, the store is
\* unchanged; only '#' takes the framer from IDLE to IN_FRAME, and it starts
\* a buffer holding exactly '#'.
C11_IdleDiscards ==
    [][ /\ (idx = 0 /\ byte' \notin {CH_HASH, CH_BANG}) =>
              /\ tx' = <<>>
              /\ disp' = <<>>
              /\ idx' = 0
              /\ buf' = <<>>
              /\ rtdb' = rtdb
        /\ (idx = 0 /\ idx' > 0) =>
              /\ byte' = CH_HASH
              /\ idx' = 1
              /\ buf' = <<CH_HASH>> ]_vars

C11_Witness ==
    /\ byte = CH_E
    /\ idx = 0
    /\ buf = <<>>
    /\ tx = <<>>
    /\ disp = <<>>

C13_ErrorLeavesIdle ==
    (Len(tx) >= 1 /\ tx[1] = AckFraming) => (idx = 0 /\ buf = <<>>)

\* C13 (amended): after a framing error reported for a stray '!', a buffer
\* overflow or a closed frame rejected as malformed the framer is IDLE with
\* an empty buffer; after the one reported for a '#' inside a frame it is
\* IN_FRAME with a buffer holding only the new '#'.
C13_ErrorLeavesIdleOrRestarted ==
    (Len(tx) >= 1 /\ tx[1] = AckFraming) =>
        IF byte = CH_HASH THEN idx = 1 /\ buf = <<CH_HASH>>
        ELSE idx = 0 /\ buf = <<>>

C13_Witness ==
    /\ tx = <<AckFraming>>
    /\ byte = CH_BANG
    /\ Len(disp) = 1
    /\ Len(disp[1]) < 6
    /\ idx = 0

\* C14: malformed input never wedges the protocol.  Whatever came before, a
\* '#' leaves the framer exactly as a '#' received by a fresh framer does
\* (after at most one framing-error ack for the abandoned frame), the bytes
\* that follow are stored in order, and the closing '!' of a valid command
\* frame has the command's effect and response.
C14_ValidFrameAlwaysAccepted ==
    [][ /\ (byte' = CH_HASH) =>
              /\ idx' = 1
              /\ buf' = <<CH_HASH>>
              /\ disp' = <<>>
              /\ rtdb' = rtdb
              /\ tx' = (IF idx > 0 THEN <<AckFraming>> ELSE <<>>)
        /\ (idx > 0 /\ idx < 63 /\ byte' \notin {CH_HASH, CH_BANG, CH_CR, CH_LF}) =>
              /\ buf' = buf \o <<byte'>>
              /\ idx' = idx + 1
              /\ tx' = <<>>
              /\ rtdb' = rtdb
        /\ (buf \o <<byte'>> = FrameSystemOff) =>
              /\ disp' = <<FrameSystemOff>>
              /\ tx' = <<AckOk>>
              /\ rtdb' = [rtdb EXCEPT !.system_on = FALSE]
              /\ idx' = 0
        /\ (buf \o <<byte'>> = FrameSystemOn) =>
              /\ disp' = <<FrameSystemOn>>
              /\ tx' = <<AckOk>>
              /\ rtdb' = [rtdb EXCEPT !.system_on = TRUE]
              /\ idx' = 0 ]_vars

C14_Witness ==
    /\ disp = <<FrameSystemOn>>
    /\ tx = <<AckOk>>
    /\ rtdb.system_on
    /\ idx = 0

(***************************************************************************)
(* Dispatcher properties, stated over one call of handle_command in the    *)
(* firmware (rtdb, tx) and in the host build (rtdb_dummy,                  *)
(* uart_test_buffer) on the same frame disp'[1].                           *)
(***************************************************************************)
AckChecksum == <<35, 69, 115, 49, 56, 52, 33>>        \* "#Es184!"

AckInvalid == <<35, 69, 105, 49, 55, 52, 33>>         \* "#Ei174!"

Dispatched == disp' # <<>>

FrameMalformed(f) == Len(f) < 6 \/ f[1] # 35 \/ f[Len(f)] # 33

FrameCmd(f) == f[2]

FrameData(f) == [i \in 1..(Len(f) - 6) |-> f[i + 2]]

\* the checksum field read as a three-digit decimal number
FrameChecksum(f) ==
    (f[Len(f) - 3] - 48) * 100 + (f[Len(f) - 2] - 48) * 10 + (f[Len(f) - 1] - 48)

RECURSIVE ByteSum(_)
ByteSum(bytes) == IF bytes = <<>> THEN 0 ELSE Head(bytes) + ByteSum(Tail(bytes))

FullChecksum(f) == (FrameCmd(f) + ByteSum(FrameData(f))) % 256

KnownCmd(c) == c \in {67, 77, 109, 82, 114, 69, 83}

StoresUnchanged == rtdb' = rtdb /\ rtdb_dummy' = rtdb_dummy

C16_UnknownCmdChecksumOverCmd ==
    [][(Dispatched /\ ~FrameMalformed(disp'[1]) /\ ~KnownCmd(FrameCmd(disp'[1])))
        => LET f == disp'[1]
               agree == FrameChecksum(f) = FrameCmd(f) % 256
           IN  /\ tx' = (IF agree THEN <<AckInvalid>> ELSE <<AckChecksum, AckInvalid>>)
               /\ uart_test_buffer' =
                      (IF agree THEN AckInvalid ELSE AckChecksum \o AckInvalid)
               /\ StoresUnchanged]_vars

\* C17: a well-formed frame with an unknown command byte whose checksum
\* field equals (command byte + all data bytes) mod 256, such as
\* "#X000232!", is answered with "#Ei174!" alone by both dispatchers.
C17_UnknownCmdFullChecksumOk ==
    [][(/\ Dispatched
        /\ ~FrameMalformed(disp'[1])
        /\ ~KnownCmd(FrameCmd(disp'[1]))
        /\ FrameChecksum(disp'[1]) = FullChecksum(disp'[1]))
        => /\ tx' = <<AckInvalid>>
           /\ uart_test_buffer' = AckInvalid]_vars

RequiredLength(c, n) ==
    CASE c \in {77, 109} -> n = 3
      [] c = 114         -> n = 0
      [] c = 69          -> n = 1
      [] c = 83          -> n >= 1
      [] OTHER           -> FALSE

\* C18: for a frame with command M, m, r, E or S and the data length that
\* command requires, a received checksum different from (command byte + all
\* data bytes) mod 256 is answered with exactly one "#Es184!" and no State
\* Store field changes.
C18_ChecksumMismatchRejected ==
    [][(/\ Dispatched
        /\ ~FrameMalformed(disp'[1])
        /\ RequiredLength(FrameCmd(disp'[1]), Len(FrameData(disp'[1])))
        /\ FrameChecksum(disp'[1]) # FullChecksum(disp'[1]))
        => /\ tx' = <<AckChecksum>>
           /\ uart_test_buffer' = AckChecksum
           /\ StoresUnchanged]_vars

C18_Witness ==
    /\ disp = << <<35, 69, 49, 48, 48, 48, 33>> >>
    /\ tx = <<AckChecksum>>
    /\ uart_test_buffer = AckChecksum
    /\ rtdb.system_on
    /\ rtdb_dummy.system_on

RECURSIVE DecimalValue(_, _)
DecimalValue(bytes, acc) ==
    IF bytes = <<>> THEN acc ELSE DecimalValue(Tail(bytes), acc * 10 + (Head(bytes) - 48))

\* C19: for command R with exactly 4 data bytes whose value is below 10 or
\* above 9999, both dispatchers answer "#Ei174!" (never "#Es184!") whether or
\* not the checksum matches, and sampling_rate_ms keeps its value.
C19_RangeBeforeChecksum ==
    [][(/\ Dispatched
        /\ ~FrameMalformed(disp'[1])
        /\ FrameCmd(disp'[1]) = 82
        /\ Len(FrameData(disp'[1])) = 4
        /\ \/ DecimalValue(FrameData(disp'[1]), 0) < 10
           \/ DecimalValue(FrameData(disp'[1]), 0) > 9999)
        => /\ tx' = <<AckInvalid>>
           /\ uart_test_buffer' = AckInvalid
           /\ rtdb'.sampling_rate_ms = rtdb.sampling_rate_ms
           /\ rtdb_dummy'.sampling_rate_ms = rtdb_dummy.sampling_rate_ms]_vars

Dec3(n) == <<48 + (n \div 100), 48 + ((n \div 10) % 10), 48 + (n % 10)>>

TempDigits(t) == Dec3(IF t < 0 THEN 0 ELSE IF t > 999 THEN 999 ELSE t)

TempResponse(t) ==
    <<35, 99>> \o TempDigits(t) \o Dec3((99 + ByteSum(TempDigits(t))) % 256) \o <<33>>

\* C20: a C frame whose checksum field equals ('C' + the three ASCII digits
\* of current_temp clamped to [0,999]) mod 256 is answered by both
\* dispatchers with exactly the 'c' response carrying those digits; with
\* current_temp = 42 the frame "#C217!" gives "#c042249!".
C20_TempQueryAnswered ==
    [][(/\ Dispatched
        /\ ~FrameMalformed(disp'[1])
        /\ FrameCmd(disp'[1]) = 67
        /\ FrameChecksum(disp'[1]) = (67 + ByteSum(TempDigits(rtdb.current_temp))) % 256
        /\ rtdb_dummy.current_temp = rtdb.current_temp)
        => /\ tx' = <<TempResponse(rtdb.current_temp)>>
           /\ uart_test_buffer' = TempResponse(rtdb_dummy.current_temp)]_vars

\* C21: whenever a C frame is answered with a 'c' response, the response
\* carries exactly the three decimal digits of current_temp clamped to
\* [0, 999] ("000" for a negative reading, "999" above 999) and the State
\* Store is unchanged.
C21_TempResponseClamped ==
    [][(Dispatched /\ ~FrameMalformed(disp'[1]) /\ FrameCmd(disp'[1]) = 67)
        => /\ (tx' # <<>> /\ tx'[1][2] = 99)
                => (tx' = <<TempResponse(rtdb.current_temp)>> /\ rtdb' = rtdb)
           /\ (uart_test_buffer' # <<>> /\ uart_test_buffer'[2] = 99)
                => /\ uart_test_buffer' = TempResponse(rtdb_dummy.current_temp)
                   /\ rtdb_dummy' = rtdb_dummy]_vars

C21_Witness ==
    /\ disp = << <<35, 67, 48, 48, 48, 50, 49, 49, 33>> >>
    /\ rtdb.current_temp < 0
    /\ tx = << <<35, 99, 48, 48, 48, 50, 52, 51, 33>> >>
    /\ rtdb_dummy.current_temp < 0
    /\ uart_test_buffer = <<35, 99, 48, 48, 48, 50, 52, 51, 33>>

LimitsUnchanged ==
    /\ rtdb'.min_temp = rtdb.min_temp
    /\ rtdb'.max_temp = rtdb.max_temp
    /\ rtdb'.setpoint = rtdb.setpoint
    /\ rtdb_dummy'.min_temp = rtdb_dummy.min_temp
    /\ rtdb_dummy'.max_temp = rtdb_dummy.max_temp
    /\ rtdb_dummy'.setpoint = rtdb_dummy.setpoint

\* a frame of command c with three data bytes and a matching checksum field
ThreeDigitFrame(f, c) ==
    /\ ~FrameMalformed(f)
    /\ FrameCmd(f) = c
    /\ Len(FrameData(f)) = 3
    /\ FrameChecksum(f) = FullChecksum(f)

\* C22: M with a correctly checksummed 3-digit value below min_temp, and m
\* with a correctly checksummed 3-digit value above max_temp, are answered
\* with "#Ei174!" and leave min_temp, max_temp and setpoint as they were.
C22_CrossingLimitRejected ==
    [][(/\ Dispatched
        /\ \/ /\ ThreeDigitFrame(disp'[1], 77)
              /\ DecimalValue(FrameData(disp'[1]), 0) < rtdb.min_temp
              /\ DecimalValue(FrameData(disp'[1]), 0) < rtdb_dummy.min_temp
           \/ /\ ThreeDigitFrame(disp'[1], 109)
              /\ DecimalValue(FrameData(disp'[1]), 0) > rtdb.max_temp
              /\ DecimalValue(FrameData(disp'[1]), 0) > rtdb_dummy.max_temp)
        => /\ tx' = <<AckInvalid>>
           /\ uart_test_buffer' = AckInvalid
           /\ LimitsUnchanged]_vars

C22_Witness ==
    /\ disp = << <<35, 77, 48, 49, 48, 50, 50, 50, 33>> >>
    /\ tx = <<AckInvalid>>
    /\ uart_test_buffer = AckInvalid
    /\ rtdb.min_temp > 10
    /\ rtdb.max_temp >= rtdb.min_temp

Min(a, b) == IF a < b THEN a ELSE b

\* C23: M with a correctly checksummed 3-digit value v >= min_temp sets
\* max_temp to v and setpoint to min(setpoint, v), leaves min_temp alone and
\* is answered with "#Eo180!"; from the default store "#M050226!" makes
\* max_temp 50 with the success ack.
C23_SetMaxTemp ==
    [][(/\ Dispatched
        /\ ThreeDigitFrame(disp'[1], 77)
        /\ DecimalValue(FrameData(disp'[1]), 0) >= rtdb.min_temp
        /\ DecimalValue(FrameData(disp'[1]), 0) >= rtdb_dummy.min_temp)
        => LET v == DecimalValue(FrameData(disp'[1]), 0)
           IN  /\ tx' = <<AckOk>>
               /\ uart_test_buffer' = AckOk
               /\ rtdb'.max_temp = v
               /\ rtdb'.setpoint = Min(rtdb.setpoint, v)
               /\ rtdb'.min_temp = rtdb.min_temp
               /\ rtdb_dummy'.max_temp = v
               /\ rtdb_dummy'.setpoint = Min(rtdb_dummy.setpoint, v)
               /\ rtdb_dummy'.min_temp = rtdb_dummy.min_temp
               /\ (rtdb.max_temp = 80 /\ disp'[1] = <<35, 77, 48, 53, 48, 50, 50, 54, 33>>)
                    => rtdb'.max_temp = 50]_vars

\* "#M022225!" while setpoint is above 22: the setpoint is pulled down
C23_Witness ==
    /\ disp = << <<35, 77, 48, 50, 50, 50, 50, 53, 33>> >>
    /\ tx = <<AckOk>>
    /\ uart_test_buffer = AckOk
    /\ rtdb.max_temp = 22 /\ rtdb.setpoint = 22 /\ rtdb.min_temp = 20
    /\ rtdb_dummy.max_temp = 22 /\ rtdb_dummy.setpoint = 22

Dec4(n) ==
    <<48 + (n \div 1000), 48 + ((n \div 100) % 10), 48 + ((n \div 10) % 10), 48 + (n % 10)>>

RateResponse(ms) ==
    LET digits == Dec4(Min(ms, 9999))
    IN  <<35, 115>> \o digits \o Dec3((115 + ByteSum(digits)) % 256) \o <<33>>

\* C24: "#r114!" is answered with a frame of command 's' whose data is the
\* four decimal digits of min(sampling_rate_ms, 9999), and leaves the State
\* Store unchanged; sampling_rate_ms = 3456 gives "#s3456069!".
C24_RateQueryAnswered ==
    [][(Dispatched /\ disp'[1] = <<35, 114, 49, 49, 52, 33>>)
        => /\ tx' = <<RateResponse(rtdb.sampling_rate_ms)>>
           /\ uart_test_buffer' = RateResponse(rtdb_dummy.sampling_rate_ms)
           /\ StoresUnchanged
           /\ rtdb.sampling_rate_ms = 3456
                => tx' = << <<35, 115, 51, 52, 53, 54, 48, 54, 57, 33>> >>
           /\ rtdb_dummy.sampling_rate_ms = 3456
                => uart_test_buffer' = <<35, 115, 51, 52, 53, 54, 48, 54, 57, 33>>]_vars

\* the stored rate is above 9999 and the answer carries "9999"
C24_Witness ==
    /\ disp = << <<35, 114, 49, 49, 52, 33>> >>
    /\ rtdb.sampling_rate_ms = 60000
    /\ rtdb_dummy.sampling_rate_ms = 60000
    /\ tx = << <<35, 115, 57, 57, 57, 57, 48, 56, 55, 33>> >>
    /\ uart_test_buffer = <<35, 115, 57, 57, 57, 57, 48, 56, 55, 33>>

\* C25: E with exactly one data byte and a matching checksum sets system_on
\* to TRUE for '0' and to FALSE for '1' with the success ack, and for any
\* other byte gives the invalid ack with system_on unchanged; no other State
\* Store field changes.
C25_SystemOnCommand ==
    [][(/\ Dispatched
        /\ ~FrameMalformed(disp'[1])
        /\ FrameCmd(disp'[1]) = 69
        /\ Len(FrameData(disp'[1])) = 1
        /\ FrameChecksum(disp'[1]) = FullChecksum(disp'[1]))
        => LET c == FrameData(disp'[1])[1]
               on(old) == IF c = 48 THEN TRUE ELSE IF c = 49 THEN FALSE ELSE old
               ack == IF c \in {48, 49} THEN AckOk ELSE AckInvalid
           IN  /\ tx' = <<ack>>
               /\ uart_test_buffer' = ack
               /\ rtdb' = [rtdb EXCEPT !.system_on = on(rtdb.system_on)]
               /\ rtdb_dummy' = [rtdb_dummy EXCEPT !.system_on = on(rtdb_dummy.system_on)]]_vars

C25_Witness ==
    /\ disp = << <<35, 69, 49, 49, 49, 56, 33>> >>
    /\ tx = <<AckOk>>
    /\ uart_test_buffer = AckOk
    /\ ~rtdb.system_on
    /\ ~rtdb_dummy.system_on

\* the frames held in a byte stream, each ending at its '!'
RECURSIVE SplitFrames(_, _, _)
SplitFrames(bytes, cur, acc) ==
    IF bytes = <<>> THEN (IF cur = <<>> THEN acc ELSE Append(acc, cur))
    ELSE IF Head(bytes) = 33 THEN SplitFrames(Tail(bytes), <<>>, Append(acc, Append(cur, 33)))
    ELSE SplitFrames(Tail(bytes), Append(cur, Head(bytes)), acc)

EmittedFrameOk(f) ==
    /\ ~FrameMalformed(f)
    /\ <<f[Len(f) - 3], f[Len(f) - 2], f[Len(f) - 1]>> = Dec3(FullChecksum(f))
    /\ FrameCmd(f) \in {69, 99, 115}
    /\ FrameCmd(f) = 69 => f \in {AckOk, AckFraming, AckChecksum, AckInvalid}

ResponseClass(f) == IF f[2] = 69 THEN <<f[2], f[3]>> ELSE <<f[2]>>

ResponseClasses(frames) == [k \in 1..Len(frames) |-> ResponseClass(frames[k])]

\* C27: dispatching a valid command frame a second time directly after the
\* first leaves the State Store as the first dispatch left it, and the
\* second response is of the same class as the first.
C27_Idempotent ==
    [][(disp # <<>> /\ disp' = disp /\ call'.arg = 2)
        => /\ StoresUnchanged
           /\ ResponseClasses(tx') = ResponseClasses(tx)
           /\ ResponseClasses(SplitFrames(uart_test_buffer', <<>>, <<>>))
                = ResponseClasses(SplitFrames(uart_test_buffer, <<>>, <<>>))]_vars

\* "#M022225!" sent twice: max_temp and setpoint are 22 after both
C27_Witness ==
    /\ call.op = "handle_command" /\ call.arg = 2
    /\ disp = << <<35, 77, 48, 50, 50, 50, 50, 53, 33>> >>
    /\ tx = <<AckOk>>
    /\ uart_test_buffer = AckOk
    /\ rtdb.max_temp = 22 /\ rtdb.setpoint = 22
    /\ rtdb_dummy.max_temp = 22 /\ rtdb_dummy.setpoint = 22

(***************************************************************************)
(* Locking properties, over the tasks that call the store.                 *)
(***************************************************************************)
InCriticalSection(x) == task[x].pc \in {"body", "clamp", "unlock"}

HalfWritten(x) == task[x].pc = "clamp"

\* C28: at most one task is inside a store critical section at any time; no
\* accessor runs while a mutator has written max_temp or min_temp and not
\* yet clamped setpoint; when the lock is free no mutator is half done.
C28_MutualExclusion ==
    /\ Cardinality({x \in Tasks : InCriticalSection(x)}) <= 1
    /\ \A x \in Tasks : \A y \in Tasks \ {x} :
          HalfWritten(x) => ~(task[y].pc = "body")
    /\ rtdb_mutex.lock_count = 0 => \A x \in Tasks : ~InCriticalSection(x)

BlockedOnLock(t) ==
    task[t].pc = "lock" /\ rtdb_mutex.lock_count > 0 /\ rtdb_mutex.owner # t

\* C29: the store cannot deadlock: never is every task blocked on the lock,
\* the lock is never requested by its holder (the count never passes 1), and
\* under fair scheduling every started store operation releases the lock
\* and returns.
C29_NoDeadlock ==
    /\ [](~(\A t \in Threads : BlockedOnLock(t)))
    /\ [](rtdb_mutex.lock_count <= 1)
    /\ \A x \in Tasks : [](task[x].pc # "idle" => <>(task[x].pc = "idle"))

WrongLength(f) ==
    \/ FrameCmd(f) \in {77, 109} /\ Len(FrameData(f)) # 3
    \/ FrameCmd(f) = 82 /\ Len(FrameData(f)) # 4
    \/ FrameCmd(f) = 114 /\ Len(FrameData(f)) # 0

\* C30: M or m with a data length other than 3, R with a data length other
\* than 4 and r with data are answered by both dispatchers with exactly one
\* "#Ei174!", also when the checksum field does not match, and the State
\* Store is unchanged.
C30_LengthBeforeChecksum ==
    [][(Dispatched /\ ~FrameMalformed(disp'[1]) /\ WrongLength(disp'[1]))
        => /\ tx' = <<AckInvalid>>
           /\ uart_test_buffer' = AckInvalid
           /\ StoresUnchanged]_vars

\* the sum of bytes[lo..hi] as an unbounded integer
RECURSIVE SumRange(_, _, _)
SumRange(bytes, lo, hi) ==
    IF lo > hi THEN 0
    ELSE IF lo = hi THEN bytes[lo]
    ELSE SumRange(bytes, lo, (lo + hi) \div 2) + SumRange(bytes, (lo + hi) \div 2 + 1, hi)

\* C31: calculate_checksum(buf, len) is the sum of the bytes modulo 256 for
\* every buffer, also when the sum passes 65535; checksum("A") = 65,
\* checksum("ABC") = 198, checksum("M025") = 228.
C31_ChecksumIsSumMod256 ==
    (call.op = "calculate_checksum" /\ call.done) =>
        /\ call.ret = SumRange(call.buf, 1, Len(call.buf)) % 256
        /\ call.buf = <<65>> => call.ret = 65
        /\ call.buf = <<65, 66, 67>> => call.ret = 198
        /\ call.buf = <<77, 48, 50, 53>> => call.ret = 228

\* a buffer whose byte sum is above 65535, so that the accumulator has wrapped
C31_Witness ==
    /\ call.op = "calculate_checksum" /\ call.done
    /\ SumRange(call.buf, 1, Len(call.buf)) > 65535
    /\ call.sum < 65536
    /\ call.ret = SumRange(call.buf, 1, Len(call.buf)) % 256

C33_DeadZoneKeepsCommand ==
    [][(/\ ctrl.pc = "drive" /\ ctrl'.pc = "sleep"
        /\ ctrl.system_on
        /\ ctrl.sp - 1 < ctrl.cur /\ ctrl.cur < ctrl.sp + 1)
       => /\ ctrl'.heater = ctrl.heater
          /\ gate' = gate
          /\ ~ctrl.started => (ctrl'.heater = FALSE /\ gate' = 1)]_vars

\* a tick in the dead zone that kept the heater flag set by an earlier tick
C33_Witness ==
    /\ ctrl.pc = "sleep" /\ ctrl.started
    /\ ctrl.system_on
    /\ ctrl.cur = ctrl.sp
    /\ ctrl.heater = TRUE /\ gate = 0

\* a well-formed frame with an unknown command whose checksum field is not
\* the checksum of the command byte (the rule for unknown commands)
UnknownCmdBadChecksum(f) ==
    /\ ~FrameMalformed(f)
    /\ ~KnownCmd(FrameCmd(f))
    /\ FrameChecksum(f) # FrameCmd(f) % 256

\* C34: every frame handed to the dispatcher is answered with exactly one
\* frame, except a well-formed frame with an unknown command and a
\* mismatching checksum, answered with exactly two (checksum-error ack, then
\* invalid-command ack); no dispatched frame is left without a response.
C34_OneResponsePerFrame ==
    [][Dispatched
        => LET f == disp'[1]
               sent == SplitFrames(uart_test_buffer', <<>>, <<>>)
           IN  IF UnknownCmdBadChecksum(f)
               THEN tx' = <<AckChecksum, AckInvalid>> /\ sent = <<AckChecksum, AckInvalid>>
               ELSE Len(tx') = 1 /\ Len(sent) = 1]_vars

\* the store fields a dispatch changed
ChangedFields == {fld \in DOMAIN rtdb : rtdb'[fld] # rtdb[fld]}

\* the fields a command may write
OwnFields(cmd) ==
    CASE cmd = 77 -> {"max_temp", "setpoint"}
      [] cmd = 109 -> {"min_temp", "setpoint"}
      [] cmd = 82 -> {"sampling_rate_ms"}
      [] cmd = 69 -> {"system_on"}
      [] OTHER -> {}

\* C35: a frame answered with a framing, checksum-error or invalid ack, and
\* any C, r or S frame whatever its answer, leaves every State Store field
\* unchanged; only M, m, R and E frames answered with the success ack can
\* change the store, each only its own field (plus setpoint for M and m).
C35_FrameEffect ==
    [][Dispatched
        => LET f == disp'[1]
           IN  /\ (\E k \in 1..Len(tx') : tx'[k] \in {AckFraming, AckChecksum, AckInvalid})
                      => ChangedFields = {}
               /\ FrameCmd(f) \in {67, 114, 83} => ChangedFields = {}
               /\ ChangedFields # {}
                      => /\ FrameCmd(f) \in {77, 109, 82, 69}
                         /\ tx' = <<AckOk>>
                         /\ ChangedFields \subseteq OwnFields(FrameCmd(f))]_vars

\* "#m030000!" accepted from a store whose setpoint was below 30: min_temp
\* and setpoint moved, nothing else
C35_Witness ==
    /\ disp = << <<35, 109, 48, 51, 48, 48, 48, 48, 33>> >>
    /\ tx = <<AckOk>>
    /\ rtdb.min_temp = 30 /\ rtdb.setpoint = 30
    /\ rtdb.max_temp = 80 /\ rtdb.sampling_rate_ms = 1000 /\ rtdb.system_on

\* C36: from the default store, after any sequence of dispatched frames
\* interleaved with set_setpoint, set_current_temp and set_system_on calls of
\* the other tasks, min_temp <= max_temp and min_temp <= setpoint <= max_temp.
C36_LimitsNeverCross ==
    /\ rtdb.min_temp <= rtdb.max_temp
    /\ rtdb.min_temp <= rtdb.setpoint
    /\ rtdb.setpoint <= rtdb.max_temp

\* "#M010215!" has just been rejected in a store whose limits were moved by
\* earlier frames and whose other fields were written by the other tasks
C36_Witness ==
    /\ disp = << <<35, 77, 48, 49, 48, 50, 50, 50, 33>> >>
    /\ tx = <<AckInvalid>>
    /\ rtdb.max_temp = 50 /\ rtdb.min_temp = 30
    /\ rtdb.setpoint = 31
    /\ rtdb.current_temp = 42
    /\ ~rtdb.system_on

\* the three characters of the checksum field
ChecksumChars(f) == <<f[Len(f) - 3], f[Len(f) - 2], f[Len(f) - 1]>>

\* C37: the dispatcher treats the checksum as matching only when the three
\* checksum characters are exactly the zero-padded decimal rendering ("000"
\* to "255") of the computed checksum; any other three characters (a number
\* above 255 such as "300", or non-digits) lead to a checksum-error ack.
C37_ChecksumFieldExact ==
    [][(Dispatched /\ ~FrameMalformed(disp'[1]))
        => LET f == disp'[1]
               exact == ChecksumChars(f) = Dec3(FullChecksum(f))
               sent == SplitFrames(uart_test_buffer', <<>>, <<>>)
           IN  /\ ~exact => (Head(tx') = AckChecksum /\ Head(sent) = AckChecksum)
               /\ exact => (Head(tx') # AckChecksum /\ Head(sent) # AckChecksum)]_vars

\* the byte received in this step is stored in the receive buffer
ByteStored == byte' = CH_HASH \/ (idx > 0 /\ byte' \notin {CH_CR, CH_LF})

\* the index it is stored at (counted from 0, as in the code)
WriteIndex == IF byte' = CH_HASH THEN 0 ELSE idx

\* C38: in uart_task, for every byte stream, every write into the 64-byte
\* receive buffer is at an index in 0..63, the index is at most 63 whenever
\* the task waits for the next byte, and the length passed to the dispatcher
\* is between 2 and 64.
C38_BufferBounds ==
    [][/\ idx \in 0..(UART_BUF_SIZE - 1)
       /\ idx' \in 0..(UART_BUF_SIZE - 1)
       /\ ByteStored => WriteIndex \in 0..(UART_BUF_SIZE - 1)
       /\ (ByteStored /\ idx' > 0) => (idx' = WriteIndex + 1 /\ buf'[idx'] = byte')
       /\ disp' # <<>> => (/\ Len(disp') = 1
                           /\ Len(disp'[1]) >= 2
                           /\ Len(disp'[1]) <= UART_BUF_SIZE)]_vars

\* a frame that filled the buffer to its last cell has been handed over
C38_Witness ==
    /\ byte = CH_BANG
    /\ Len(disp) = 1
    /\ Len(disp[1]) = UART_BUF_SIZE
    /\ disp[1][UART_BUF_SIZE] = CH_BANG
    /\ idx = 0 /\ buf = <<>>

\* both callbacks have returned, once each
BothPressesDone ==
    \A h \in Handlers : task[h].n = 1 /\ task[h].pc = "idle"

C40_LawIsBelowSetpoint ==
    (/\ call.op = "compute" /\ call.done
     /\ call.min_temp <= call.setpoint /\ call.setpoint <= call.max_temp)
        => call.ret = (call.system_on /\ call.current_temp < call.setpoint)

\* a reading below min_temp with ordered limits: the protection rule and the
\* comparison with the setpoint both turn the heater on
C40_Witness ==
    /\ call.op = "compute" /\ call.done
    /\ call.system_on
    /\ call.min_temp < call.setpoint /\ call.setpoint < call.max_temp
    /\ call.current_temp < call.min_temp
    /\ call.ret = TRUE

====
